---- MODULE Spec2Model ----
(***************************************************************************)
(* formatbreaker: the combinator and context engine (core.py) with the     *)
(* leaf parsers of basictypes.py.                                          *)
(*                                                                         *)
(* Strings are sequences of one-character strings, so that split, join,    *)
(* isnumeric, int, str and hex are computed as Python computes them.       *)
(* A Python dict is a sequence of [k, v] entries in insertion order, the   *)
(* dicts live in a heap (a sequence indexed by reference), and a Context   *)
(* (a ChainMap) is the sequence of the references of its maps, innermost   *)
(* first.                                                                  *)
(***************************************************************************)
EXTENDS Integers, Sequences, FiniteSets, TLC

VARIABLES
    heap,      \* the dicts: heap[d] is the sequence of entries of dict d
    layout,    \* the parser parse() is called on
    src,       \* the number of bytes of the input
    cursor,    \* position of the data source, in bits from the start
    regions,   \* the open DataManager regions, outermost first
    stack,     \* the call stack, outermost call first
    ret,       \* the value the last finished call returned
    exc,       \* the exception being raised, None when there is none
    outcome,   \* what parse() gave: running, returned (with its dict), raised
    ev,        \* the last step taken by the parse
    cobjs,     \* Context API: the Context objects created so far
    wlog,      \* Context API: the writes made, in order
    dirty,     \* Context API: dirty[c], the parent frame of c was written since c was created
    lastop,    \* Context API: the last operation and what it returned
    pobjs,     \* construction: the parser objects built so far
    built      \* construction: the last operator or constructor call

vars == <<heap, layout, src, cursor, regions, stack, ret, exc, outcome, ev,
          cobjs, wlog, dirty, lastop, pobjs, built>>

parsevars == <<layout, src, cursor, regions, stack, ret, exc, outcome, ev>>
ctxvars == <<cobjs, wlog, dirty, lastop>>
buildvars == <<pobjs, built>>

None == <<>>
Some(x) == <<x>>

Last(s) == s[Len(s)]
Front(s) == SubSeq(s, 1, Len(s) - 1)

(***************************************************************************)
(* Python strings                                                          *)
(***************************************************************************)
Digits == <<"0", "1", "2", "3", "4", "5", "6", "7", "8", "9">>
HexDigits == Digits \o <<"a", "b", "c", "d", "e", "f">>
SP == " "

\* str.isnumeric(): non-empty and every character a digit
isnumeric(s) == Len(s) > 0 /\ \A i \in 1..Len(s) : \E d \in 1..10 : Digits[d] = s[i]

DigitVal(c) == (CHOOSE d \in 1..10 : Digits[d] = c) - 1

\* int(s) of a numeric string: leading zeros are dropped
RECURSIVE int(_)
int(s) == IF Len(s) = 0 THEN 0 ELSE 10 * int(Front(s)) + DigitVal(Last(s))

\* str(i) of a non-negative integer
RECURSIVE str(_)
str(i) == IF i < 10 THEN <<Digits[i + 1]>> ELSE str(i \div 10) \o <<Digits[(i % 10) + 1]>>

RECURSIVE hexdigits(_)
hexdigits(i) == IF i < 16 THEN <<HexDigits[i + 1]>>
                ELSE hexdigits(i \div 16) \o <<HexDigits[(i % 16) + 1]>>

\* hex(i)
hex(i) == IF i < 0 THEN <<"-", "0", "x">> \o hexdigits(0 - i) ELSE <<"0", "x">> \o hexdigits(i)

\* s.split(" "): the parts between single spaces, empty parts kept
RECURSIVE split(_)
split(s) ==
    IF \A i \in 1..Len(s) : s[i] # SP THEN <<s>>
    ELSE LET j == CHOOSE i \in 1..Len(s) : s[i] = SP /\ \A h \in 1..(i - 1) : s[h] # SP
         IN <<SubSeq(s, 1, j - 1)>> \o split(SubSeq(s, j + 1, Len(s)))

\* " ".join(parts)
RECURSIVE join(_)
join(parts) ==
    IF Len(parts) = 0 THEN <<>>
    ELSE IF Len(parts) = 1 THEN parts[1]
    ELSE parts[1] \o <<SP>> \o join(Tail(parts))

(***************************************************************************)
(* dict                                                                    *)
(***************************************************************************)
DictKeys(d) == {d[i].k : i \in 1..Len(d)}
DictHas(d, key) == \E i \in 1..Len(d) : d[i].k = key
DictGet(d, key) == d[CHOOSE i \in 1..Len(d) : d[i].k = key].v

\* d[key] = value: an existing key keeps its place, a new key goes last
DictSet(d, key, value) ==
    IF DictHas(d, key)
    THEN [i \in 1..Len(d) |-> IF d[i].k = key THEN [k |-> key, v |-> value] ELSE d[i]]
    ELSE Append(d, [k |-> key, v |-> value])

\* d.update(other)
RECURSIVE DictUpdate(_, _)
DictUpdate(d, other) ==
    IF Len(other) = 0 THEN d
    ELSE DictUpdate(DictSet(d, other[1].k, other[1].v), Tail(other))

(***************************************************************************)
(* Context (collections.ChainMap)                                          *)
(***************************************************************************)
\* (mutant) only the innermost map is looked at
contains_innermost(h, ctx, key) == DictHas(h[ctx[1]], key)

\* key in context: ChainMap looks in every map of the chain
contains(h, ctx, key) == \E m \in 1..Len(ctx) : DictHas(h[ctx[m]], key)

\* context[key]: the first map of the chain that has the key
getitem(h, ctx, key) ==
    DictGet(h[ctx[CHOOSE m \in 1..Len(ctx) :
                    DictHas(h[ctx[m]], key) /\ \A n \in 1..(m - 1) : ~DictHas(h[ctx[n]], key)]], key)

\* (mutant) the key is renamed once, without looking whether the new key is free
probe_once(h, ctx, base, i, new_key) ==
    IF contains(h, ctx, new_key) THEN base \o <<SP>> \o str(i) ELSE new_key

\* the while loop of Context.__setitem__
RECURSIVE probe(_, _, _, _, _)
probe(h, ctx, base, i, new_key) ==
    IF contains(h, ctx, new_key)
    THEN probe(h, ctx, base, i + 1, base \o <<SP>> \o str(i))
    ELSE new_key

\* (mutant) the key is never renamed
new_key_of_key(h, ctx, key) == key

\* the key Context.__setitem__ stores under
new_key_of(h, ctx, key) ==
    LET parts == split(key)
    IN IF isnumeric(Last(parts))
       THEN LET base == join(Front(parts))
                i == int(Last(parts))
            IN probe(h, ctx, base, i, base \o <<SP>> \o str(i))
       ELSE probe(h, ctx, key, 1, key)

\* Context.__setitem__: the heap after context[key] = value
setitem(h, ctx, key, value) ==
    [h EXCEPT ![ctx[1]] = DictSet(h[ctx[1]], new_key_of(h, ctx, key), value)]

\* Context.update_ext, when it does not raise: the heap after it
\* (mutant) the entries are promoted into the outermost map
update_ext_outermost(h, ctx) ==
    [h EXCEPT ![ctx[Len(ctx)]] = DictUpdate(h[ctx[Len(ctx)]], h[ctx[1]]), ![ctx[1]] = <<>>]

update_ext(h, ctx) ==
    [h EXCEPT ![ctx[2]] = DictUpdate(h[ctx[2]], h[ctx[1]]), ![ctx[1]] = <<>>]

\* Context.update_ext raises RuntimeError
update_ext_raises(ctx) == Len(ctx) = 1

\* (mutant) the frame is cleared before the check
update_ext_raised_cleared(h, ctx) == [h EXCEPT ![ctx[1]] = <<>>]

\* the dicts after a call that raised: the check comes before any write
update_ext_raised(h, ctx) == h

\* Context(): a new dict on the heap and the Context over it
alloc(h) == Append(h, <<>>)
Context(h) == <<Len(h) + 1>>

\* ChainMap.new_child(): a new dict in front of the maps of ctx
new_child(h, ctx) == <<Len(h) + 1>> \o ctx

\* get_from_contexts
get_from_contexts_raises(h, contexts, key) ==
    \A c \in 1..Len(contexts) : ~contains(h, contexts[c], key)
get_from_contexts(h, contexts, key) ==
    getitem(h, contexts[CHOOSE c \in 1..Len(contexts) :
                          contains(h, contexts[c], key)
                          /\ \A b \in 1..(c - 1) : ~contains(h, contexts[b], key)], key)

(***************************************************************************)
(* The Context API driven directly: set, new_child and update_ext on the   *)
(* Context objects of one chain family, as tests/test_core.py TestContext  *)
(* does.                                                                   *)
(***************************************************************************)
MaxOps == 4
MaxCtx == 3

kx == <<"x">>
kx1 == <<"x", " ", "1">>
kx5 == <<"x", " ", "5">>
k5 == <<"5">>
kx05 == <<"x", " ", "0", "5">>
ky1 == <<"y", "1">>
CtxKeys == {kx, kx1, kx5, k5, kx05, ky1}

IntVal(n) == [t |-> "int", v |-> <<n>>]

NoParse ==
    /\ layout = None /\ src = 0 /\ cursor = 0 /\ regions = <<>> /\ stack = <<>>
    /\ ret = [t |-> "None", v |-> <<>>] /\ exc = None
    /\ outcome = [status |-> "idle", result |-> <<>>, error |-> None]
    /\ ev = [op |-> "idle"]

\* no parser has been built
NoBuild == pobjs = <<>> /\ built = [op |-> "idle"]

\* context = Context()
CtxInit ==
    /\ heap = <<<<>>>>
    /\ cobjs = <<<<1>>>>
    /\ wlog = <<>>
    /\ dirty = <<FALSE>>
    /\ lastop = [op |-> "Context", c |-> 1, raised |-> FALSE, n |-> 0]
    /\ NoParse /\ NoBuild

\* the Context objects whose parent frame is the dict d
ChildrenOf(d) == {j \in 1..Len(cobjs) : Len(cobjs[j]) >= 2 /\ cobjs[j][2] = d}

\* context[key] = value, the value being the number of the write
CtxSet(c, key) ==
    /\ lastop.n < MaxOps
    /\ heap' = setitem(heap, cobjs[c], key, IntVal(Len(wlog) + 1))
    /\ wlog' = Append(wlog, [c |-> c, k |-> key, v |-> IntVal(Len(wlog) + 1)])
    /\ dirty' = [j \in 1..Len(dirty) |-> dirty[j] \/ j \in ChildrenOf(cobjs[c][1])]
    /\ lastop' = [op |-> "set", c |-> c, raised |-> FALSE, n |-> lastop.n + 1]
    /\ UNCHANGED <<cobjs, parsevars, buildvars>>

\* child = context.new_child()
CtxNewChild(c) ==
    /\ lastop.n < MaxOps
    /\ Len(cobjs) < MaxCtx
    /\ cobjs' = Append(cobjs, new_child(heap, cobjs[c]))
    /\ heap' = alloc(heap)
    /\ dirty' = Append(dirty, FALSE)
    /\ lastop' = [op |-> "new_child", c |-> Len(cobjs) + 1, raised |-> FALSE, n |-> lastop.n + 1]
    /\ UNCHANGED <<wlog, parsevars, buildvars>>

\* context.update_ext()
CtxUpdateExt(c) ==
    /\ lastop.n < MaxOps
    /\ IF update_ext_raises(cobjs[c])
       THEN /\ lastop' = [op |-> "update_ext", c |-> c, raised |-> TRUE, n |-> lastop.n + 1]
            /\ heap' = update_ext_raised(heap, cobjs[c])
            /\ UNCHANGED dirty
       ELSE /\ heap' = update_ext(heap, cobjs[c])
            /\ dirty' = [j \in 1..Len(dirty) |->
                            dirty[j] \/ (j # c /\ j \in ChildrenOf(cobjs[c][2]))]
            /\ lastop' = [op |-> "update_ext", c |-> c, raised |-> FALSE, n |-> lastop.n + 1]
    /\ UNCHANGED <<cobjs, wlog, parsevars, buildvars>>

CtxNext ==
    \/ \E c \in 1..Len(cobjs), key \in CtxKeys : CtxSet(c, key)
    \/ \E c \in 1..Len(cobjs) : CtxNewChild(c)
    \/ \E c \in 1..Len(cobjs) : CtxUpdateExt(c)

CtxSpec == CtxInit /\ [][CtxNext]_vars

(***************************************************************************)
(* Values a read returns and a Context stores                              *)
(***************************************************************************)
Success == [t |-> "Success", v |-> <<>>]
Reverted == [t |-> "Reverted", v |-> <<>>]
NoneVal == [t |-> "None", v |-> <<>>]
StrVal(x) == [t |-> "str", v |-> <<x>>]
\* an int a field returns, held as its decimal digit
IntDigit(c) == [t |-> "int", v |-> <<c>>]
DictVal(d) == [t |-> "dict", v |-> d]
ListVal(l) == [t |-> "list", v |-> l]
ContextVal(ctx) == [t |-> "Context", v |-> ctx]
QtyInt(n) == [t |-> "int", v |-> <<n>>]
QtyStr(key) == [t |-> "str", v |-> <<key>>]

\* the truth value of an optional string: None and "" are false
Truthy(opt) == opt # None /\ opt[1] # <<>>

(***************************************************************************)
(* Parsers and the combinators that build them                             *)
(***************************************************************************)
s_mock == <<"m", "o", "c", "k">>
s_Block == <<"B", "l", "o", "c", "k">>
s_Section == <<"S", "e", "c", "t", "i", "o", "n">>
s_spacer == <<"s", "p", "a", "c", "e", "r", "_">>
s_Byte == <<"B", "y", "t", "e">>

\* Parser.__init__: no label, no address, the class's addressing mode and backup label
Parser(kind, backup, addr_type) ==
    [kind |-> kind, label |-> None, address |-> None, backup |-> backup,
     addr_type |-> addr_type, length |-> 0, value |-> NoneVal, elements |-> <<>>,
     relative |-> TRUE, optional |-> FALSE, parser |-> <<>>, qty |-> NoneVal,
     translate_func |-> None]

\* tests/test_core.py TestSection.MockType(length, value)
MockType(length, value) ==
    [Parser("Mock", Some(s_mock), "UNDEFINED") EXCEPT !.length = length, !.value = value]

\* basictypes.Failure
Failure == Parser("Failure", None, "UNDEFINED")

\* Byte = ByteParser()
Byte == Parser("Byte", Some(s_Byte), "BYTE")

\* Bytes(byte_length): the length is an int or a key
Bytes(byte_length) ==
    [Parser("Bytes", Some(<<"B", "y", "t", "e", "s">>), "UNDEFINED") EXCEPT !.qty = byte_length]

\* VarBytes(source=key)
VarBytes(source) ==
    [Parser("VarBytes", Some(<<"V", "a", "r", "B", "y", "t", "e", "s">>), "UNDEFINED")
        EXCEPT !.qty = QtyStr(source)]

\* End = EndParser()
End == Parser("End", None, "UNDEFINED")

Block(elements, relative, addr_type, optional) ==
    [Parser("Block", Some(s_Block), addr_type) EXCEPT
        !.elements = elements, !.relative = relative, !.optional = optional]

Section(elements, relative, addr_type, optional) ==
    [Parser("Section", Some(s_Section), addr_type) EXCEPT
        !.elements = elements, !.relative = relative, !.optional = optional]

\* Optional(*args, **kwargs): Section(*args, optional=True, **kwargs)
Optional(elements, relative) == Section(elements, relative, "PARENT", TRUE)

\* parser @ addr
matmul(p, addr) == [p EXCEPT !.address = Some(addr)]

\* parser >> label
rshift(p, label) == [p EXCEPT !.label = Some(label)]

\* Modifier.__init__: the wrapped parser's backup label and mode, its label and
\* its address when they are truthy
Modifier(kind, parser) ==
    [Parser(kind, parser.backup, parser.addr_type) EXCEPT
        !.parser = <<parser>>,
        !.label = IF Truthy(parser.label) THEN parser.label ELSE None,
        !.address = IF parser.address # None /\ parser.address[1] # 0
                    THEN parser.address ELSE None]

\* Translator(parser, translate_func)
Translator(parser, translate_func) ==
    [Modifier("Translator", parser) EXCEPT !.translate_func = Some(translate_func)]

\* parser * qty
Repeat(parser, qty) == [Modifier("Repeat", parser) EXCEPT !.qty = qty]

\* parser[qty]
Array(parser, qty) == [Modifier("Array", parser) EXCEPT !.qty = qty]

(***************************************************************************)
(* DataManager: the data source and its regions.  cursor is the position   *)
(* in bits; a region has the position of its address 0 (base), the bits of *)
(* one unit of its addressing mode (8 for BYTE, 1 for BIT), whether it is  *)
(* revertible, the cursor when it was opened (start) and the dicts as they *)
(* were when it was opened (snap, kept for the claims about reverting).    *)
(***************************************************************************)
IsParseError(e) == e \in {Some("FBError"), Some("FBNoDataError")}

UnitOf(addr_type, parent_unit) ==
    IF addr_type = "BIT" THEN 1 ELSE IF addr_type = "BYTE" THEN 8 ELSE parent_unit

\* DataManager(src, addr_type)
RootRegion(addr_type) ==
    [base |-> 0, unit |-> UnitOf(addr_type, 8), revertible |-> FALSE, start |-> 0,
     snap |-> <<>>]

\* data.address of region r
Address(r) == (cursor - regions[r].base) \div regions[r].unit

\* the input is bytes(range(src)): byte i holds i
ByteAt(i) == i % 256
BitAt(b) == (ByteAt(b \div 8) \div (2 ^ (7 - (b % 8)))) % 2

\* data.read(n) raises: IndexError for a negative length, FBNoDataError when
\* fewer than n units remain
data_read_raises(r, n) ==
    IF n < 0 THEN Some("IndexError")
    ELSE IF cursor + n * regions[r].unit > 8 * src THEN Some("FBNoDataError")
    ELSE None

\* what data.read(n) returns
data_read(r, n) ==
    IF regions[r].unit = 8
    THEN [t |-> "bytes", v |-> [j \in 1..n |-> ByteAt((cursor \div 8) + j - 1)]]
    ELSE [t |-> "bits", v |-> [j \in 1..n |-> BitAt(cursor + j - 1)]]

\* (mutant) a revert goes back to address 0 of the region it was made from
make_child_rewinds(r, relative, addr_type, revertible) ==
    [base |-> IF relative THEN cursor ELSE regions[r].base,
     unit |-> UnitOf(addr_type, regions[r].unit),
     revertible |-> revertible, start |-> regions[r].base, snap |-> heap]

\* data.make_child(relative, addr_type, revertible), made from region r
make_child(r, relative, addr_type, revertible) ==
    [base |-> IF relative THEN cursor ELSE regions[r].base,
     unit |-> UnitOf(addr_type, regions[r].unit),
     revertible |-> revertible, start |-> cursor, snap |-> heap]

\* (mutant) a region may end anywhere
exit_raises_never == None

\* leaving the innermost region without an exception raises RuntimeError when
\* a BIT region ends off a byte boundary of its BYTE parent
exit_raises ==
    IF /\ Len(regions) >= 2
       /\ Last(regions).unit = 1
       /\ regions[Len(regions) - 1].unit = 8
       /\ cursor % 8 # 0
    THEN Some("RuntimeError") ELSE None

\* leaving the innermost region with exception e suppresses it: the region is
\* revertible and e is a parse error
exit_suppresses(e) == Last(regions).revertible /\ IsParseError(e)

(***************************************************************************)
(* The call stack.  A frame is one call of goto_addr_and_read (fn "goto")  *)
(* or of read_and_translate with the read it makes (fn "rat").             *)
(***************************************************************************)
Frame(fn, pc, p, data, contexts) ==
    [fn |-> fn, pc |-> pc, p |-> p, data |-> data, contexts |-> contexts,
     new_data |-> 0, out |-> None, out2 |-> None, addr |-> 0, i |-> 0, n |-> 0,
     val |-> NoneVal, results |-> <<>>, rgn |-> FALSE]

Top == stack[Len(stack)]
SetTop(f) == [stack EXCEPT ![Len(stack)] = f]

Running == outcome.status = "running"
At(fn, pc) == Running /\ exc = None /\ stack # <<>> /\ Top.fn = fn /\ Top.pc = pc
AtRead(kind) == At("rat", "read") /\ Top.p.kind = kind

Step(name) == ev' = [op |-> name]

(***************************************************************************)
(* _spacer                                                                 *)
(***************************************************************************)
\* (mutant) a spacer of one unit is labelled as a range too
spacer_label_range(start_addr, stop_addr) ==
    s_spacer \o hex(start_addr) \o <<"-">> \o hex(stop_addr - 1)

\* the label of the spacer from start_addr up to stop_addr
spacer_label(start_addr, stop_addr) ==
    IF stop_addr - start_addr > 1
    THEN s_spacer \o hex(start_addr) \o <<"-">> \o hex(stop_addr - 1)
    ELSE s_spacer \o hex(start_addr)

\* (mutant) no spacer for a target that is behind the cursor either
spacer_returns_nonpositive(length) == length <= 0

\* _spacer returns at once: if length == 0
spacer_returns(length) == length = 0

(***************************************************************************)
(* Parser._store                                                           *)
(***************************************************************************)
\* _store raises RuntimeError: no label, no self._label, no backup label
store_raises(p, label) == ~Truthy(label) /\ ~Truthy(p.label) /\ ~Truthy(p.backup)

\* (mutant) the backup label is used without the address
store_label_no_addr(p, addr, label) ==
    IF Truthy(label) THEN label[1]
    ELSE IF Truthy(p.label) THEN p.label[1]
    ELSE p.backup[1]

\* (mutant) the backup label wins over the parser's own label
store_label_backup_first(p, addr, label) ==
    IF Truthy(label) THEN label[1]
    ELSE IF Truthy(p.backup) THEN p.backup[1] \o <<"_">> \o hex(addr[1])
    ELSE p.label[1]

\* the label _store writes under
store_label(p, addr, label) ==
    IF Truthy(label) THEN label[1]
    ELSE IF Truthy(p.label) THEN p.label[1]
    ELSE IF addr # None THEN p.backup[1] \o <<"_">> \o hex(addr[1])
    ELSE p.backup[1]

\* the user function of the layouts, lambda s: s + "!": a str with the mark
\* appended
suffix(data) == [data EXCEPT !.v = data.v \o <<"!">>]

\* (mutant) every parser passes the data through
translate_default(p, data) == data

\* self.translate(data).  Parser.translate: the data unchanged;
\* Translator.translate: self._translate_func(data)
translate(p, data) ==
    IF p.kind = "Translator" THEN suffix(data) ELSE data

\* str + str only: anything else added to a str raises TypeError
translate_raises(p, data) ==
    IF p.kind = "Translator" /\ data.t # "str" THEN Some("TypeError") ELSE None


\* dict(context): the keys of all maps, outermost map first, each with the
\* value of the innermost map that has it
RECURSIVE dict_of(_, _)
dict_of(h, ctx) ==
    IF Len(ctx) = 0 THEN <<>> ELSE DictUpdate(dict_of(h, Tail(ctx)), h[ctx[1]])

Fixed == UNCHANGED <<layout, src, ctxvars, buildvars>>

(***************************************************************************)
(* Parser.goto_addr_and_read                                               *)
(***************************************************************************)
\* (mutant) addr is taken before the spacer is resolved
goto_addr_before(start_addr, length) == start_addr

\* addr = data.address, after the spacer of `length` units from start_addr
goto_addr(start_addr, length) == start_addr + length

\* lines 146-149: resolve the spacer to the pinned address, take addr, call
\* read_and_translate
goto_addr_and_read_call ==
    /\ At("goto", "spacer")
    /\ LET f == Top
           stop == f.p.address
           start_addr == Address(f.data)
           length == IF stop = None THEN 0 ELSE stop[1] - start_addr
           call(addr) == Append(SetTop([f EXCEPT !.pc = "result", !.addr = addr]),
                                Frame("rat", "read", f.p, f.data, f.contexts))
       IN IF stop = None \/ spacer_returns(length)
          THEN /\ stack' = call(goto_addr(start_addr, 0))
               /\ UNCHANGED <<heap, cursor, exc>>
          ELSE IF data_read_raises(f.data, length) # None
          THEN /\ exc' = data_read_raises(f.data, length)
               /\ UNCHANGED <<heap, cursor, stack>>
          ELSE /\ heap' = setitem(heap, f.contexts[1], spacer_label(start_addr, stop[1]),
                                  data_read(f.data, length))
               /\ cursor' = cursor + length * regions[f.data].unit
               /\ stack' = call(goto_addr(start_addr, length))
               /\ UNCHANGED exc
    /\ Step("goto_addr_and_read_call")
    /\ UNCHANGED <<regions, ret, outcome>> /\ Fixed

\* lines 150-158: what is done with the result of read_and_translate
goto_addr_and_read_result ==
    /\ At("goto", "result")
    /\ LET f == Top
           result == ret
       IN CASE result.t = "Reverted" ->
                 /\ stack' = Front(stack) /\ ret' = Reverted
                 /\ UNCHANGED <<heap, exc>>
            [] result.t = "Context" ->
                 IF update_ext_raises(result.v)
                 THEN exc' = Some("RuntimeError") /\ UNCHANGED <<heap, stack, ret>>
                 ELSE /\ heap' = update_ext(heap, result.v)
                      /\ stack' = Front(stack) /\ ret' = Success
                      /\ UNCHANGED exc
            [] result.t = "None" ->
                 exc' = Some("ValueError") /\ UNCHANGED <<heap, stack, ret>>
            [] result.t = "Success" ->
                 /\ stack' = Front(stack) /\ ret' = Success
                 /\ UNCHANGED <<heap, exc>>
            [] OTHER ->
                 IF store_raises(f.p, None)
                 THEN exc' = Some("RuntimeError") /\ UNCHANGED <<heap, stack, ret>>
                 ELSE /\ heap' = setitem(heap, f.contexts[1],
                                         store_label(f.p, Some(f.addr), None), result)
                      /\ stack' = Front(stack) /\ ret' = Success
                      /\ UNCHANGED exc
    /\ Step("goto_addr_and_read_result")
    /\ UNCHANGED <<cursor, regions, outcome>> /\ Fixed

\* Parser.read_and_translate, after self.read returned: Reverted is passed on,
\* anything else is translated
read_and_translate_return ==
    /\ At("rat", "translate")
    /\ IF Top.val = Reverted
       THEN ret' = Reverted /\ stack' = Front(stack) /\ UNCHANGED exc
       ELSE IF translate_raises(Top.p, Top.val) # None
       THEN exc' = translate_raises(Top.p, Top.val) /\ UNCHANGED <<ret, stack>>
       ELSE /\ ret' = translate(Top.p, Top.val)
            /\ stack' = Front(stack) /\ UNCHANGED exc
    /\ Step("read_and_translate_return")
    /\ UNCHANGED <<heap, cursor, regions, outcome>> /\ Fixed

(***************************************************************************)
(* Modifier.read: return self._parser.read_and_translate(data, contexts)   *)
(***************************************************************************)
Modifier_read_call ==
    /\ AtRead("Translator")
    /\ stack' = Append(SetTop([Top EXCEPT !.pc = "wrapped"]),
                       Frame("rat", "read", Top.p.parser[1], Top.data, Top.contexts))
    /\ Step("Modifier_read_call")
    /\ UNCHANGED <<heap, cursor, regions, ret, exc, outcome>> /\ Fixed

Modifier_read_return ==
    /\ At("rat", "wrapped")
    /\ stack' = SetTop([Top EXCEPT !.val = ret, !.pc = "translate"])
    /\ Step("Modifier_read_return")
    /\ UNCHANGED <<heap, cursor, regions, ret, exc, outcome>> /\ Fixed

(***************************************************************************)
(* Leaf parsers                                                            *)
(***************************************************************************)
\* MockType.read: data.read(self.length); return self.value
MockType_read ==
    /\ AtRead("Mock")
    /\ LET f == Top
       IN IF data_read_raises(f.data, f.p.length) # None
          THEN exc' = data_read_raises(f.data, f.p.length) /\ UNCHANGED <<cursor, stack>>
          ELSE /\ cursor' = cursor + f.p.length * regions[f.data].unit
               /\ stack' = SetTop([f EXCEPT !.val = f.p.value, !.pc = "translate"])
               /\ UNCHANGED exc
    /\ Step("MockType_read")
    /\ UNCHANGED <<heap, regions, ret, outcome>> /\ Fixed

\* FailureParser.read: raise FBError
FailureParser_read ==
    /\ AtRead("Failure")
    /\ exc' = Some("FBError")
    /\ Step("FailureParser_read")
    /\ UNCHANGED <<heap, cursor, regions, stack, ret, outcome>> /\ Fixed

\* ByteParser.read: return data.read_bytes(1)
ByteParser_read ==
    /\ AtRead("Byte")
    /\ IF cursor + 8 > 8 * src
       THEN exc' = Some("FBNoDataError") /\ UNCHANGED <<cursor, stack>>
       ELSE /\ cursor' = cursor + 8
            /\ stack' = SetTop([Top EXCEPT !.pc = "translate",
                                           !.val = [t |-> "bytes",
                                                    v |-> <<ByteAt(cursor \div 8)>>]])
            /\ UNCHANGED exc
    /\ Step("ByteParser_read")
    /\ UNCHANGED <<heap, regions, ret, outcome>> /\ Fixed

\* Bytes.read: the length is self._byte_length, or what get_from_contexts
\* finds under it, which must be an int; it must be at least 1; then
\* data.read_bytes(length)
Bytes_read ==
    /\ AtRead("Bytes")
    /\ LET f == Top
           key == f.p.qty.v[1]
           found == get_from_contexts(heap, f.contexts, key)
           length == IF f.p.qty.t = "int" THEN key ELSE DigitVal(found.v[1])
           raises ==
               IF f.p.qty.t = "int" THEN (IF length < 1 THEN Some("ValueError") ELSE None)
               ELSE IF get_from_contexts_raises(heap, f.contexts, key) THEN Some("KeyError")
               ELSE IF found.t # "int" THEN Some("TypeError")
               ELSE IF length < 1 THEN Some("ValueError") ELSE None
       IN IF raises # None
          THEN exc' = raises /\ UNCHANGED <<cursor, stack>>
          ELSE IF cursor + 8 * length > 8 * src
          THEN exc' = Some("FBNoDataError") /\ UNCHANGED <<cursor, stack>>
          ELSE /\ cursor' = cursor + 8 * length
               /\ stack' = SetTop([f EXCEPT !.pc = "translate",
                      !.val = [t |-> "bytes",
                               v |-> [j \in 1..length |-> ByteAt((cursor \div 8) + j - 1)]]])
               /\ UNCHANGED exc
    /\ Step("Bytes_read")
    /\ UNCHANGED <<heap, regions, ret, outcome>> /\ Fixed

\* VarBytes.read: length = contexts[0][self._length_key], which must be an
\* int; then data.read_bytes(length)
VarBytes_read ==
    /\ AtRead("VarBytes")
    /\ LET f == Top
           key == f.p.qty.v[1]
           found == getitem(heap, f.contexts[1], key)
           length == DigitVal(found.v[1])
           raises ==
               IF ~contains(heap, f.contexts[1], key) THEN Some("KeyError")
               ELSE IF found.t # "int" THEN Some("ValueError") ELSE None
       IN IF raises # None
          THEN exc' = raises /\ UNCHANGED <<cursor, stack>>
          ELSE IF cursor + 8 * length > 8 * src
          THEN exc' = Some("FBNoDataError") /\ UNCHANGED <<cursor, stack>>
          ELSE /\ cursor' = cursor + 8 * length
               /\ stack' = SetTop([f EXCEPT !.pc = "translate",
                      !.val = [t |-> "bytes",
                               v |-> [j \in 1..length |-> ByteAt((cursor \div 8) + j - 1)]]])
               /\ UNCHANGED exc
    /\ Step("VarBytes_read")
    /\ UNCHANGED <<heap, regions, ret, outcome>> /\ Fixed

\* data.make_child(relative=True, addr_type=AddrType.PARENT, revertible=True)
End_region(f) == make_child(f.data, TRUE, "PARENT", TRUE)

\* EndParser.read: test = None, and the region is opened
EndParser_read_enter ==
    /\ AtRead("End")
    /\ regions' = Append(regions, End_region(Top))
    /\ stack' = SetTop([Top EXCEPT !.pc = "probe", !.val = NoneVal, !.rgn = TRUE,
                                   !.new_data = Len(regions) + 1])
    /\ Step("EndParser_read_enter")
    /\ UNCHANGED <<heap, cursor, ret, exc, outcome>> /\ Fixed

\* test = data.read_bytes(1), read on data and not on the region just opened:
\* with no byte left FBNoDataError is raised inside the with block; with a
\* byte, test holds it and the region is left
EndParser_read_probe ==
    /\ At("rat", "probe") /\ Top.p.kind = "End"
    /\ LET f == Top
       IN IF cursor + 8 > 8 * src
          THEN exc' = Some("FBNoDataError") /\ UNCHANGED <<cursor, regions, stack>>
          ELSE /\ cursor' = cursor + 8
               /\ regions' = Front(regions)
               /\ exc' = exit_raises
               /\ stack' = SetTop([f EXCEPT !.pc = "after", !.rgn = FALSE,
                                            !.val = [t |-> "bytes",
                                                     v |-> <<ByteAt(cursor \div 8)>>]])
    /\ Step("EndParser_read_probe")
    /\ UNCHANGED <<heap, ret, outcome>> /\ Fixed

\* if test is not None: raise FBError; return Success
EndParser_read_after ==
    /\ At("rat", "after") /\ Top.p.kind = "End"
    /\ IF Top.val # NoneVal
       THEN exc' = Some("FBError") /\ UNCHANGED stack
       ELSE /\ stack' = SetTop([Top EXCEPT !.val = Success, !.pc = "translate"])
            /\ UNCHANGED exc
    /\ Step("EndParser_read_after")
    /\ UNCHANGED <<heap, cursor, regions, ret, outcome>> /\ Fixed

(***************************************************************************)
(* Block.read                                                              *)
(***************************************************************************)
\* (mutant) the region of a Block is never revertible
Block_region_plain(f) == make_child(f.data, f.p.relative, f.p.addr_type, FALSE)

\* data.make_child(relative=self._relative, addr_type=self._addr_type,
\*                 revertible=self._optional)
Block_region(f) == make_child(f.data, f.p.relative, f.p.addr_type, f.p.optional)

\* out_context = Context()
Block_out_context(h, contexts) == Context(h)

\* with data.make_child(...) as new_data: out_context = Context()
Block_read_enter ==
    /\ AtRead("Block")
    /\ LET f == Top
       IN /\ regions' = Append(regions, Block_region(f))
          /\ heap' = alloc(heap)
          /\ stack' = SetTop([f EXCEPT !.pc = "elements", !.new_data = Len(regions) + 1,
                                       !.out = Block_out_context(heap, f.contexts),
                                       !.i = 1, !.rgn = TRUE])
    /\ Step("Block_read_enter")
    /\ UNCHANGED <<cursor, ret, exc, outcome>> /\ Fixed

\* element.goto_addr_and_read(new_data, (out_context, *contexts))
Block_read_element ==
    /\ At("rat", "elements") /\ Top.p.kind = "Block"
    /\ Top.i <= Len(Top.p.elements)
    /\ LET f == Top
       IN stack' = Append(SetTop([f EXCEPT !.i = f.i + 1]),
                          Frame("goto", "spacer", f.p.elements[f.i], f.new_data,
                                <<f.out>> \o f.contexts))
    /\ Step("Block_read_element")
    /\ UNCHANGED <<heap, cursor, regions, ret, exc, outcome>> /\ Fixed

\* return dict(out_context), leaving the region
Block_read_return ==
    /\ At("rat", "elements") /\ Top.p.kind = "Block"
    /\ Top.i > Len(Top.p.elements)
    /\ LET f == Top
       IN /\ regions' = Front(regions)
          /\ exc' = exit_raises
          /\ stack' = SetTop([f EXCEPT !.val = DictVal(dict_of(heap, f.out)),
                                       !.pc = "translate", !.rgn = FALSE])
    /\ Step("Block_read_return")
    /\ UNCHANGED <<heap, cursor, ret, outcome>> /\ Fixed

(***************************************************************************)
(* Section.read                                                            *)
(***************************************************************************)
Section_region(f) == make_child(f.data, f.p.relative, f.p.addr_type, f.p.optional)

\* (mutant) the children write into the caller's Context itself
Section_out_context_shared(h, contexts) == contexts[1]

\* out_context = contexts[0].new_child()
Section_out_context(h, contexts) == new_child(h, contexts[1])

\* with data.make_child(...) as new_data: out_context = contexts[0].new_child()
Section_read_enter ==
    /\ AtRead("Section")
    /\ LET f == Top
       IN /\ regions' = Append(regions, Section_region(f))
          /\ heap' = alloc(heap)
          /\ stack' = SetTop([f EXCEPT !.pc = "elements", !.new_data = Len(regions) + 1,
                                       !.out = Section_out_context(heap, f.contexts),
                                       !.i = 1, !.rgn = TRUE])
    /\ Step("Section_read_enter")
    /\ UNCHANGED <<cursor, ret, exc, outcome>> /\ Fixed

\* element.goto_addr_and_read(new_data, (out_context, *contexts[1:]))
Section_read_element ==
    /\ At("rat", "elements") /\ Top.p.kind = "Section"
    /\ Top.i <= Len(Top.p.elements)
    /\ LET f == Top
       IN stack' = Append(SetTop([f EXCEPT !.i = f.i + 1]),
                          Frame("goto", "spacer", f.p.elements[f.i], f.new_data,
                                <<f.out>> \o Tail(f.contexts)))
    /\ Step("Section_read_element")
    /\ UNCHANGED <<heap, cursor, regions, ret, exc, outcome>> /\ Fixed

\* return out_context, leaving the region
Section_read_return ==
    /\ At("rat", "elements") /\ Top.p.kind = "Section"
    /\ Top.i > Len(Top.p.elements)
    /\ LET f == Top
       IN /\ regions' = Front(regions)
          /\ exc' = exit_raises
          /\ stack' = SetTop([f EXCEPT !.val = ContextVal(f.out),
                                       !.pc = "translate", !.rgn = FALSE])
    /\ Step("Section_read_return")
    /\ UNCHANGED <<heap, cursor, ret, outcome>> /\ Fixed


(***************************************************************************)
(* Repeat.read                                                             *)
(***************************************************************************)
\* lines 466-471: the count; a string count is looked up and then refused by the
\* else of the second if
qty_raises(h, contexts, qty) ==
    IF qty.t = "str"
    THEN IF get_from_contexts_raises(h, contexts, qty.v[1])
         THEN Some("KeyError") ELSE Some("ValueError")
    ELSE IF qty.t = "int" THEN None ELSE Some("ValueError")

\* (mutant) the region of an iteration is revertible
Repeat_region_revertible(f) == make_child(f.data, TRUE, "PARENT", TRUE)

\* data.make_child(relative=True, addr_type=AddrType.PARENT, revertible=False)
Repeat_region(f) == make_child(f.data, TRUE, "PARENT", FALSE)

\* (mutant) each iteration stores into results itself
Repeat_out_context_results(h, results) == results

\* out_context = results.new_child()
Repeat_out_context(h, results) == new_child(h, results)

\* reps, then results = contexts[0].new_child()
Repeat_read_enter ==
    /\ AtRead("Repeat")
    /\ LET f == Top
       IN IF qty_raises(heap, f.contexts, f.p.qty) # None
          THEN exc' = qty_raises(heap, f.contexts, f.p.qty) /\ UNCHANGED <<heap, stack>>
          ELSE /\ heap' = alloc(heap)
               /\ stack' = SetTop([f EXCEPT !.pc = "loop", !.n = f.p.qty.v[1], !.i = 0,
                                            !.out = new_child(heap, f.contexts[1])])
               /\ UNCHANGED exc
    /\ Step("Repeat_read_enter")
    /\ UNCHANGED <<cursor, regions, ret, outcome>> /\ Fixed

\* one iteration, up to the call: the child region, addr, out_context =
\* results.new_child(), self._parser.read_and_translate(new_data, contexts)
Repeat_read_iter ==
    /\ At("rat", "loop") /\ Top.p.kind = "Repeat"
    /\ Top.i < Top.n
    /\ LET f == Top
       IN /\ regions' = Append(regions, Repeat_region(f))
          /\ heap' = alloc(heap)
          /\ stack' = Append(SetTop([f EXCEPT !.pc = "iter_result", !.rgn = TRUE,
                                              !.new_data = Len(regions) + 1, !.addr = 0,
                                              !.out2 = Repeat_out_context(heap, f.out)]),
                             Frame("rat", "read", f.p.parser[1], Len(regions) + 1,
                                   f.contexts))
    /\ Step("Repeat_read_iter")
    /\ UNCHANGED <<cursor, ret, exc, outcome>> /\ Fixed

\* lines 484-490 and the end of the with block
Repeat_read_iter_result ==
    /\ At("rat", "iter_result") /\ Top.p.kind = "Repeat"
    /\ LET f == Top
           result == ret
           next == SetTop([f EXCEPT !.pc = "loop", !.i = f.i + 1, !.rgn = FALSE])
       IN CASE result.t = "Reverted" ->
                 /\ regions' = Front(regions) /\ exc' = exit_raises /\ stack' = next
                 /\ UNCHANGED heap
            [] result.t = "Context" ->
                 IF update_ext_raises(result.v)
                 THEN exc' = Some("RuntimeError") /\ UNCHANGED <<heap, regions, stack>>
                 ELSE /\ heap' = update_ext(update_ext(heap, result.v), f.out2)
                      /\ regions' = Front(regions) /\ exc' = exit_raises /\ stack' = next
            [] result.t = "None" ->
                 /\ heap' = update_ext(heap, f.out2)
                 /\ regions' = Front(regions) /\ exc' = exit_raises /\ stack' = next
            [] OTHER ->
                 IF store_raises(f.p, None)
                 THEN exc' = Some("RuntimeError") /\ UNCHANGED <<heap, regions, stack>>
                 ELSE /\ heap' = update_ext(setitem(heap, f.out2,
                                                    store_label(f.p, Some(f.addr), None),
                                                    result),
                                            f.out2)
                      /\ regions' = Front(regions) /\ exc' = exit_raises /\ stack' = next
    /\ Step("Repeat_read_iter_result")
    /\ UNCHANGED <<cursor, ret, outcome>> /\ Fixed

\* return results
Repeat_read_return ==
    /\ At("rat", "loop") /\ Top.p.kind = "Repeat"
    /\ Top.i >= Top.n
    /\ stack' = SetTop([Top EXCEPT !.val = ContextVal(Top.out), !.pc = "translate"])
    /\ Step("Repeat_read_return")
    /\ UNCHANGED <<heap, cursor, regions, ret, exc, outcome>> /\ Fixed

(***************************************************************************)
(* Array.read                                                              *)
(***************************************************************************)
\* (mutant) the region of an iteration is revertible
Array_region_revertible(f) == make_child(f.data, TRUE, "PARENT", TRUE)

\* data.make_child(relative=True, addr_type=AddrType.PARENT, revertible=False)
Array_region(f) == make_child(f.data, TRUE, "PARENT", FALSE)

\* reps, then results = []
Array_read_enter ==
    /\ AtRead("Array")
    /\ LET f == Top
       IN IF qty_raises(heap, f.contexts, f.p.qty) # None
          THEN exc' = qty_raises(heap, f.contexts, f.p.qty) /\ UNCHANGED stack
          ELSE /\ stack' = SetTop([f EXCEPT !.pc = "loop", !.n = f.p.qty.v[1], !.i = 0,
                                            !.results = <<>>])
               /\ UNCHANGED exc
    /\ Step("Array_read_enter")
    /\ UNCHANGED <<heap, cursor, regions, ret, outcome>> /\ Fixed

\* one iteration, up to the call: the child region, out_context = Context(),
\* self._parser.read_and_translate(new_data, (out_context, *contexts[1:]))
Array_read_iter ==
    /\ At("rat", "loop") /\ Top.p.kind = "Array"
    /\ Top.i < Top.n
    /\ LET f == Top
       IN /\ regions' = Append(regions, Array_region(f))
          /\ heap' = alloc(heap)
          /\ stack' = Append(SetTop([f EXCEPT !.pc = "iter_result", !.rgn = TRUE,
                                              !.new_data = Len(regions) + 1,
                                              !.out2 = Context(heap)]),
                             Frame("rat", "read", f.p.parser[1], Len(regions) + 1,
                                   <<Context(heap)>> \o Tail(f.contexts)))
    /\ Step("Array_read_iter")
    /\ UNCHANGED <<cursor, ret, exc, outcome>> /\ Fixed

\* lines 535-540 and the end of the with block
Array_read_iter_result ==
    /\ At("rat", "iter_result") /\ Top.p.kind = "Array"
    /\ LET f == Top
           result == ret
           appended == CASE result.t = "Reverted" -> Append(f.results, ListVal(<<>>))
                         [] result.t = "Context" ->
                              Append(f.results, DictVal(dict_of(heap, result.v)))
                         [] result.t = "None" -> f.results
                         [] OTHER -> Append(f.results, result)
       IN /\ regions' = Front(regions)
          /\ exc' = exit_raises
          /\ stack' = SetTop([f EXCEPT !.pc = "loop", !.i = f.i + 1, !.rgn = FALSE,
                                       !.results = appended])
    /\ Step("Array_read_iter_result")
    /\ UNCHANGED <<heap, cursor, ret, outcome>> /\ Fixed

\* return results
Array_read_return ==
    /\ At("rat", "loop") /\ Top.p.kind = "Array"
    /\ Top.i >= Top.n
    /\ stack' = SetTop([Top EXCEPT !.val = ListVal(Top.results), !.pc = "translate"])
    /\ Step("Array_read_return")
    /\ UNCHANGED <<heap, cursor, regions, ret, exc, outcome>> /\ Fixed


(***************************************************************************)
(* Exceptions: leaving the with blocks and the calls on the way up         *)
(***************************************************************************)
Raising == Running /\ exc # None

\* the innermost region is left with a parse error and is revertible: the
\* cursor goes back to where the region was opened, the exception is
\* suppressed, and the code after the with block runs (Block.read and
\* Section.read: return Reverted; EndParser.read: the test of test; a loop:
\* its next iteration)
region_exit_suppress ==
    /\ Raising /\ stack # <<>> /\ Top.rgn
    /\ exit_suppresses(exc)
    /\ cursor' = Last(regions).start
    /\ regions' = Front(regions)
    /\ exc' = None
    /\ stack' = SetTop(IF Top.p.kind \in {"Block", "Section"}
                       THEN [Top EXCEPT !.rgn = FALSE, !.val = Reverted, !.pc = "translate"]
                       ELSE IF Top.p.kind = "End"
                       THEN [Top EXCEPT !.rgn = FALSE, !.pc = "after"]
                       ELSE [Top EXCEPT !.rgn = FALSE, !.i = Top.i + 1, !.pc = "loop"])
    /\ Step("region_exit_suppress")
    /\ UNCHANGED <<heap, ret, outcome>> /\ Fixed

\* the innermost region is left with an exception it does not suppress
region_exit_propagate ==
    /\ Raising /\ stack # <<>> /\ Top.rgn
    /\ ~exit_suppresses(exc)
    /\ regions' = Front(regions)
    /\ stack' = SetTop([Top EXCEPT !.rgn = FALSE])
    /\ Step("region_exit_propagate")
    /\ UNCHANGED <<heap, cursor, ret, exc, outcome>> /\ Fixed

\* the exception leaves a call that holds no region
unwind ==
    /\ Raising /\ stack # <<>> /\ ~Top.rgn
    /\ stack' = Front(stack)
    /\ Step("unwind")
    /\ UNCHANGED <<heap, cursor, regions, ret, exc, outcome>> /\ Fixed

(***************************************************************************)
(* Parser.parse                                                            *)
(***************************************************************************)
\* return dict(context)
parse_return ==
    /\ Running /\ exc = None /\ stack = <<>>
    /\ outcome' = [status |-> "returned", result |-> dict_of(heap, <<1>>), error |-> None]
    /\ regions' = <<>>
    /\ Step("parse_return")
    /\ UNCHANGED <<heap, cursor, stack, ret, exc>> /\ Fixed

\* the exception leaves parse()
parse_raise ==
    /\ Raising /\ stack = <<>>
    /\ outcome' = [status |-> "raised", result |-> <<>>, error |-> exc]
    /\ regions' = <<>>
    /\ Step("parse_raise")
    /\ UNCHANGED <<heap, cursor, stack, ret, exc>> /\ Fixed

(***************************************************************************)
(* The layouts parsed                                                      *)
(***************************************************************************)
foo == StrVal("foo")
bar == StrVal("bar")
baz == StrVal("baz")
qux == StrVal("qux")
s_label == <<"l", "a", "b", "e", "l">>
s_opt == <<"o", "p", "t">>
s_a == <<"a">>

Fields_3_5_1 == <<MockType(3, foo), MockType(5, bar), MockType(1, baz)>>

\* tests/test_core.py: the fixtures of TestSection
sequential_section == Section(Fields_3_5_1, TRUE, "PARENT", FALSE)
addressed_section ==
    Section(Fields_3_5_1 \o <<matmul(MockType(2, qux), 10)>>, TRUE, "PARENT", FALSE)
addressed_block ==
    Block(Fields_3_5_1 \o <<matmul(MockType(2, qux), 10)>>, TRUE, "PARENT", FALSE)

\* test_nested_blocks_produce_expected_results
nested_blocks ==
    Section(<<addressed_section,
              rshift(addressed_block, s_label),
              rshift(matmul(addressed_block, 40), s_label),
              matmul(addressed_section, 60)>>, TRUE, "PARENT", FALSE)

\* test_optional_blocks_work
optional_blocks ==
    Section(<<addressed_section,
              Optional(<<rshift(addressed_block, s_opt),
                         rshift(matmul(addressed_block, 40), s_opt),
                         Block(<<matmul(addressed_section, 60), Failure>>,
                               FALSE, "PARENT", FALSE)>>, FALSE),
              rshift(addressed_block, s_label),
              rshift(matmul(addressed_block, 40), s_label),
              matmul(addressed_section, 60)>>, TRUE, "PARENT", FALSE)

\* bitwise_sequential_section and bitwise_sequential_section_length_9
bitwise_sequential_section ==
    Section(<<MockType(3, foo), MockType(4, bar), MockType(1, baz)>>, TRUE, "BIT", FALSE)
bitwise_sequential_section_length_9 ==
    Section(<<Section(Fields_3_5_1, TRUE, "BIT", FALSE)>>, TRUE, "PARENT", FALSE)

Case(p, n) == [p |-> p, n |-> n]

\* the layouts of the tests with the input sizes of the tests
TestCases ==
    {Case(sequential_section, 11), Case(sequential_section, 2),
     Case(addressed_section, 100), Case(addressed_block, 100),
     Case(nested_blocks, 256), Case(optional_blocks, 256),
     Case(bitwise_sequential_section, 11), Case(bitwise_sequential_section_length_9, 11)}

\* the generated layouts: a root container holding an optional field before,
\* one element under test, and an optional field after
MaxAddr == 3
ShortData == 2
MaxData == 8

m1 == MockType(1, foo)
m2 == MockType(2, bar)
\* MockType(1): value is None
m0 == MockType(1, NoneVal)

Leaves ==
    {m1, m2, m0, rshift(m1, s_a), Failure, End, Byte} \cup {matmul(m1, a) : a \in 0..MaxAddr}

Container(kind, elements, relative, optional) ==
    IF kind = "Block" THEN Block(elements, relative, "PARENT", optional)
    ELSE Section(elements, relative, "PARENT", optional)

Kinds == {"Block", "Section"}

\* the children of a container that holds fields only
FieldSeqs ==
    {<<m1>>, <<rshift(m1, s_a)>>, <<m1, Failure>>, <<m1, matmul(m1, 2)>>,
     <<m2, matmul(m1, 1)>>, <<m1, End>>}

\* the children of a container that holds a container or a modifier
Inner ==
    {Container(k, <<l>>, TRUE, FALSE) : k \in Kinds, l \in {m1, Failure}}
    \cup {Repeat(l, QtyInt(2)) : l \in {m1, Failure}}
    \cup {Array(l, QtyInt(2)) : l \in {m1, Failure}}
    \cup {Repeat(Section(<<m1>>, TRUE, "PARENT", FALSE), QtyInt(2))}
NestedSeqs == {<<m1, x>> \o t : x \in Inner, t \in {<<>>, <<Failure>>}}

Containers ==
    {Container(k, e, r, o) : k \in Kinds, e \in FieldSeqs \cup NestedSeqs,
                             r \in BOOLEAN, o \in BOOLEAN}

\* a container as it is, labelled, or pinned
Decorated ==
    Containers
    \cup {rshift(c, s_a) : c \in {Container(k, e, r, o) :
                                    k \in Kinds, e \in FieldSeqs, r \in BOOLEAN, o \in BOOLEAN}}
    \cup {matmul(c, MaxAddr) : c \in {Container(k, e, r, o) :
                                    k \in Kinds, e \in FieldSeqs, r \in BOOLEAN, o \in BOOLEAN}}

Modified ==
    {Repeat(m1, QtyInt(2)), Array(m1, QtyInt(2)),
     Repeat(Byte, QtyInt(3)), Array(Byte, QtyInt(3)), Repeat(rshift(Byte, s_a), QtyInt(2)),
     Repeat(m0, QtyInt(2)), Array(m0, QtyInt(2)),
     Repeat(Section(<<m1>>, TRUE, "PARENT", FALSE), QtyInt(2)),
     Array(Section(<<m1>>, TRUE, "PARENT", FALSE), QtyInt(2)),
     Repeat(Block(<<m1>>, TRUE, "PARENT", FALSE), QtyInt(2)),
     Array(Optional(<<m1, Failure>>, TRUE), QtyInt(2))}

\* a Translator over a field, a Translator, a container, and in a modifier
s_suffix == <<"s", "u", "f", "f", "i", "x">>
Translated ==
    {Translator(x, s_suffix) :
        x \in {m1, m0, rshift(m1, s_a), matmul(m1, 1), Failure, Byte,
               Translator(m1, s_suffix),
               Section(<<m1>>, TRUE, "PARENT", FALSE),
               Optional(<<m1, Failure>>, TRUE)}}
    \cup {Repeat(Translator(m1, s_suffix), QtyInt(2)),
          Array(Translator(m1, s_suffix), QtyInt(2)),
          Repeat(Translator(Translator(m1, s_suffix), s_suffix), QtyInt(2))}

Before == {<<>>, <<m1>>}
After == {<<>>, <<m1>>, <<matmul(m1, MaxAddr)>>}

Generated ==
    {Container(k, b \o <<x>> \o a, TRUE, FALSE) :
        k \in Kinds, b \in Before, x \in Leaves \cup Decorated \cup Modified \cup Translated,
        a \in After}

\* a count field stored under a label, then a modifier whose count is a key
mcount == rshift(MockType(1, IntDigit("2")), s_a)
Counted ==
    {Section(<<mcount, x>>, TRUE, "PARENT", FALSE) :
        x \in {Repeat(m1, QtyStr(s_a)), Array(m1, QtyStr(s_a)),
               Repeat(m1, QtyStr(s_label)), Array(m1, QtyStr(s_label)),
               Block(<<Repeat(m1, QtyStr(s_a))>>, TRUE, "PARENT", FALSE)}}

\* a length field stored under a label, then a field whose length is a key:
\* beside it, in a container, which may hold a nearer length, and in a
\* modifier
Dynamic ==
    {Container(k, <<mcount, x>>, TRUE, FALSE) :
        k \in Kinds,
        x \in UNION {{d, Repeat(d, QtyInt(2)), Array(d, QtyInt(2))} :
                        d \in {Bytes(QtyStr(s_a)), VarBytes(s_a), Bytes(QtyStr(s_label)),
                               VarBytes(s_label)}}
            \cup {Container(j, n \o <<d>>, TRUE, FALSE) :
                     j \in Kinds, d \in {Bytes(QtyStr(s_a)), VarBytes(s_a)},
                     n \in {<<>>, <<rshift(MockType(1, IntDigit("1")), s_a)>>}}}
    \cup {Section(<<rshift(m1, s_a), x>>, TRUE, "PARENT", FALSE) :
             x \in {Bytes(QtyStr(s_a)), VarBytes(s_a)}}

\* a BIT container of 8, 9 or 16 bits in a byte-addressed Section, after
\* nothing or one byte, and a field after it
Bitwise ==
    {Section(b \o <<[Container(k, f, r, o) EXCEPT !.addr_type = "BIT"]>> \o <<m1>>,
             TRUE, "PARENT", FALSE) :
        b \in Before, k \in Kinds, r \in BOOLEAN, o \in BOOLEAN,
        f \in {bitwise_sequential_section.elements, Fields_3_5_1,
               <<MockType(3, foo), MockType(5, bar), MockType(8, qux)>>}}

\* a modifier over a parser whose read returns Success, at the end of the data
Sentinels ==
    {Container(k, b \o <<x>>, TRUE, FALSE) :
        k \in Kinds, b \in {<<m2>>, <<m2, m1>>},
        x \in {Repeat(End, QtyInt(2)), Array(End, QtyInt(2)),
               Repeat(rshift(End, s_a), QtyInt(2)), Array(rshift(End, s_a), QtyInt(2)),
               rshift(Array(End, QtyInt(2)), s_a)}}

Cases ==
    TestCases
    \cup {Case(p, n) : p \in Generated \cup Counted \cup Dynamic \cup Bitwise \cup Sentinels,
                           n \in {ShortData, MaxData}}

(***************************************************************************)
(* Construction: the operators and constructors that build parsers, on     *)
(* parser objects held by reference                                        *)
(***************************************************************************)
MaxObjs == 3

\* (mutant) only the type is checked
validate_type(x, min) == IF x.t # "int" THEN Some("TypeError") ELSE None

\* util.validate_address_or_length(x, min): an int that is at least min
validate_address_or_length(x, min) ==
    IF x.t # "int" THEN Some("TypeError")
    ELSE IF x.v[1] < min THEN Some("IndexError") ELSE None

\* the _addr_type setter: the name of a mode, or a mode
addr_type_raises(a) ==
    IF a.t = "str"
    THEN IF a.v[1] \in {"BIT", "BYTE", "PARENT", "UNDEFINED"} THEN None ELSE Some("KeyError")
    ELSE IF a.t = "AddrType" THEN None ELSE Some("TypeError")

\* (mutant) the operator works on the receiver
copy_ref_self(objs, i) == i

\* b = copy.copy(self): b is a new object
copy_ref(objs, i) == Len(objs) + 1

\* the call is recorded; the objects are objs when it returned, and as they
\* were when it raised
Built(op, recv, arg, raised, objs) ==
    /\ Len(pobjs) < MaxObjs
    /\ built' = [op |-> op, recv |-> recv, arg |-> arg, raised |-> raised]
    /\ pobjs' = IF raised = None THEN objs ELSE pobjs
    /\ UNCHANGED <<heap, parsevars, ctxvars>>

\* MockType(1, "foo"): Parser.__init__
Parser_init == Built("init", 0, NoneVal, None, Append(pobjs, m1))

\* self @ addr: the copy, then the _address setter on it
Parser_matmul(i, addr) ==
    LET b == copy_ref(pobjs, i)
        objs == Append(pobjs, pobjs[i])
    IN Built("matmul", i, addr, validate_address_or_length(addr, 0),
             [objs EXCEPT ![b] = matmul(objs[b], addr.v[1])])

\* self >> label: TypeError for a label that is no str, else the copy, then
\* the _label setter on it
Parser_rshift(i, label) ==
    LET b == copy_ref(pobjs, i)
        objs == Append(pobjs, pobjs[i])
    IN Built("rshift", i, label, IF label.t # "str" THEN Some("TypeError") ELSE None,
             [objs EXCEPT ![b] = rshift(objs[b], label.v[1])])

\* self * qty: Repeat(self, qty)
Parser_mul(i, qty) ==
    Built("mul", i, qty, validate_address_or_length(qty, 1),
          Append(pobjs, Repeat(pobjs[i], qty)))

\* self[qty]: Array(self, qty)
Parser_getitem(i, qty) ==
    Built("getitem", i, qty, validate_address_or_length(qty, 0),
          Append(pobjs, Array(pobjs[i], qty)))

\* Block(*elements, relative=, addr_type=) and Section(...): the checks of
\* Block.__init__ in their order, then the _addr_type setter
Block_init(kind, elements, relative, addr_type) ==
    Built(kind, 0, [elements |-> elements, relative |-> relative, addr_type |-> addr_type],
          IF relative.t # "bool" THEN Some("TypeError")
          ELSE IF \E j \in 1..Len(elements) : elements[j].t # "Parser" THEN Some("TypeError")
          ELSE addr_type_raises(addr_type),
          Append(pobjs, LET children == [j \in 1..Len(elements) |-> pobjs[elements[j].v[1]]]
                        IN IF kind = "Block"
                           THEN Block(children, relative.v[1], addr_type.v[1], FALSE)
                           ELSE Section(children, relative.v[1], addr_type.v[1], FALSE)))

BuildInit == heap = <<>> /\ NoParse /\ NoBuild /\ cobjs = <<>> /\ wlog = <<>>
             /\ dirty = <<>> /\ lastop = [op |-> "none", c |-> 0, raised |-> FALSE, n |-> 0]

BuildNext ==
    \/ Parser_init
    \/ \E i \in 1..Len(pobjs), a \in -1..1 : Parser_matmul(i, IntVal(a))
    \/ \E i \in 1..Len(pobjs) : Parser_matmul(i, StrVal(<<"1">>))
    \/ \E i \in 1..Len(pobjs) : Parser_rshift(i, StrVal(s_a))
    \/ \E i \in 1..Len(pobjs) : Parser_rshift(i, IntVal(3))
    \/ \E i \in 1..Len(pobjs), n \in 0..1 : Parser_mul(i, QtyInt(n))
    \/ \E i \in 1..Len(pobjs), n \in 0..1 : Parser_getitem(i, QtyInt(n))
    \/ \E k \in Kinds, e \in {<<>>} \cup {<<[t |-> "Parser", v |-> <<i>>]>> : i \in 1..Len(pobjs)},
          r \in BOOLEAN :
          Block_init(k, e, [t |-> "bool", v |-> <<r>>], [t |-> "str", v |-> <<"PARENT">>])
    \/ \E k \in Kinds : Block_init(k, <<StrVal("test")>>, [t |-> "bool", v |-> <<TRUE>>],
                                  [t |-> "AddrType", v |-> <<"PARENT">>])
    \/ \E k \in Kinds : Block_init(k, <<>>, StrVal("true"),
                                  [t |-> "AddrType", v |-> <<"PARENT">>])
    \/ \E k \in Kinds, a \in {[t |-> "str", v |-> <<"bogus">>], DictVal(<<>>)} :
          Block_init(k, <<>>, [t |-> "bool", v |-> <<TRUE>>], a)

BuildSpec == BuildInit /\ [][BuildNext]_vars

(***************************************************************************)
(* parse(data): context = Context(), the DataManager over the input, and   *)
(* the call self.goto_addr_and_read(manager, (context,))                   *)
(***************************************************************************)
Init ==
    /\ \E c \in Cases : layout = c.p /\ src = c.n
    /\ heap = <<<<>>>>
    /\ cursor = 0
    /\ regions = <<RootRegion(layout.addr_type)>>
    /\ stack = <<Frame("goto", "spacer", layout, 1, <<<<1>>>>)>>
    /\ ret = NoneVal
    /\ exc = None
    /\ outcome = [status |-> "running", result |-> <<>>, error |-> None]
    /\ ev = [op |-> "parse"]
    /\ cobjs = <<>> /\ wlog = <<>> /\ dirty = <<>>
    /\ lastop = [op |-> "none", c |-> 0, raised |-> FALSE, n |-> 0]
    /\ NoBuild

Next ==
    \/ goto_addr_and_read_call
    \/ goto_addr_and_read_result
    \/ read_and_translate_return
    \/ Modifier_read_call
    \/ Modifier_read_return
    \/ MockType_read
    \/ FailureParser_read
    \/ ByteParser_read
    \/ Bytes_read
    \/ VarBytes_read
    \/ EndParser_read_enter
    \/ EndParser_read_probe
    \/ EndParser_read_after
    \/ Block_read_enter
    \/ Block_read_element
    \/ Block_read_return
    \/ Section_read_enter
    \/ Section_read_element
    \/ Section_read_return
    \/ Repeat_read_enter
    \/ Repeat_read_iter
    \/ Repeat_read_iter_result
    \/ Repeat_read_return
    \/ Array_read_enter
    \/ Array_read_iter
    \/ Array_read_iter_result
    \/ Array_read_return
    \/ region_exit_suppress
    \/ region_exit_propagate
    \/ unwind
    \/ parse_return
    \/ parse_raise

Spec == Init /\ [][Next]_vars


(***************************************************************************)
(* Claims                                                                  *)
(***************************************************************************)
DistinctKeys(d) == \A i, j \in 1..Len(d) : d[i].k = d[j].k => i = j

\* a suffix-free key: its last space-separated part is not numeric
SuffixFree(key) == ~isnumeric(Last(split(key)))

\* C1, first half: a write appends one entry, with the written value and a key
\* the frame did not have, and leaves every entry of every frame as it was.
C1_WriteAppends ==
    lastop'.op = "set" =>
        LET f == cobjs[lastop'.c][1]
        IN /\ \A d \in 1..Len(heap) : d # f => heap'[d] = heap[d]
           /\ Len(heap'[f]) = Len(heap[f]) + 1
           /\ SubSeq(heap'[f], 1, Len(heap[f])) = heap[f]
           /\ Last(heap'[f]).v = Last(wlog').v
           /\ ~DictHas(heap[f], Last(heap'[f]).k)
           /\ DistinctKeys(heap'[f])

\* C1, second half: n writes of one suffix-free key k into one frame leave
\* k, "k 1", ..., "k n-1" holding the n values in write order.
C1_RepeatedKey ==
    (/\ Len(wlog) >= 1
     /\ SuffixFree(wlog[1].k)
     /\ \A i \in 1..Len(wlog) : wlog[i].c = 1 /\ wlog[i].k = wlog[1].k)
    => heap[1] = [i \in 1..Len(wlog) |->
                    [k |-> IF i = 1 THEN wlog[1].k ELSE wlog[1].k \o <<SP>> \o str(i - 1),
                     v |-> wlog[i].v]]

\* C1: for every sequence of Context set(key, value) writes into one frame, no
\* write changes or removes an existing entry and all keys stay distinct;
\* writing the same suffix-free key k n times leaves the entries k, "k 1", ...,
\* "k n-1" holding the n values in write order.
C1_Uniqueness == [][C1_WriteAppends]_vars /\ []C1_RepeatedKey

\* three writes of "x" into the root frame gave "x", "x 1", "x 2"
C1_Witness ==
    /\ Len(wlog) = 3
    /\ \A i \in 1..3 : wlog[i].c = 1 /\ wlog[i].k = kx
    /\ Len(heap[1]) = 3
    /\ heap[1][3] = [k |-> <<"x", " ", "2">>, v |-> IntVal(3)]

\* C2: for a child Context made by new_child() and populated through set while
\* its parent frame is not written, update_ext leaves every entry the parent
\* had unchanged, adds every child value under a key distinct from all previous
\* parent keys (the parent grows by exactly the child's entry count), and
\* leaves the child's innermost frame empty.
C2_PromoteStep ==
    (lastop'.op = "update_ext" /\ ~lastop'.raised /\ ~dirty[lastop'.c]) =>
        LET f == cobjs[lastop'.c][1]
            p == cobjs[lastop'.c][2]
        IN /\ SubSeq(heap'[p], 1, Len(heap[p])) = heap[p]
           /\ Len(heap'[p]) = Len(heap[p]) + Len(heap[f])
           /\ \A i \in 1..Len(heap[f]) :
                /\ heap'[p][Len(heap[p]) + i].v = heap[f][i].v
                /\ ~DictHas(heap[p], heap'[p][Len(heap[p]) + i].k)
           /\ DistinctKeys(heap'[p])
           /\ heap'[f] = <<>>

C2_Promote == [][C2_PromoteStep]_vars

\* a child that wrote "x" below a parent holding "x" was promoted: the parent
\* holds both values, the child's under the renamed key
C2_Witness ==
    /\ lastop.op = "update_ext" /\ ~lastop.raised /\ ~dirty[lastop.c]
    /\ \E i, j \in 1..Len(wlog) :
         /\ i < j /\ wlog[j].c = lastop.c /\ wlog[j].k = kx /\ wlog[i].k = kx
         /\ Len(cobjs[wlog[i].c]) = 1
         /\ heap[cobjs[lastop.c][2]] = <<[k |-> kx, v |-> wlog[i].v],
                                         [k |-> kx1, v |-> wlog[j].v]>>
    /\ heap[cobjs[lastop.c][1]] = <<>>

(***************************************************************************)
(* Helpers of the claims about the parse                                   *)
(***************************************************************************)
\* got is the key a write of the suffix-free key lands under, given the keys
\* the chain ctx holds in h
StoredAs(h, ctx, key, got) ==
    IF ~contains(h, ctx, key) THEN got = key
    ELSE \E n \in 1..9 :
            /\ got = key \o <<SP, Digits[n + 1]>>
            /\ ~contains(h, ctx, got)
            /\ \A m \in 1..(n - 1) : contains(h, ctx, key \o <<SP, Digits[m + 1]>>)

\* this step appends exactly one entry, for key with value, to the innermost
\* frame of ctx and changes no other dict
AppendsOne(ctx, key, value) ==
    LET fr == ctx[1]
    IN /\ Len(heap') = Len(heap)
       /\ \A d \in 1..Len(heap) : d # fr => heap'[d] = heap[d]
       /\ Len(heap'[fr]) = Len(heap[fr]) + 1
       /\ SubSeq(heap'[fr], 1, Len(heap[fr])) = heap[fr]
       /\ Last(heap'[fr]).v = value
       /\ StoredAs(heap, ctx, key, Last(heap'[fr]).k)

\* the call of goto_addr_and_read that is about to store or pass on the
\* result of a parser of this kind
Storing(kind) == At("goto", "result") /\ Top.p.kind = kind

mock_at(h) == s_mock \o <<"_", "0", "x">> \o h
spacer_at(h) == s_spacer \o <<"0", "x">> \o h
Entry(k, v) == [k |-> k, v |-> v]
BytesVal(b) == [t |-> "bytes", v |-> b]
Returned(d) == [status |-> "returned", result |-> d, error |-> None]

(***************************************************************************)
(* C3                                                                      *)
(***************************************************************************)
\* a ParseError raised by a child has unwound to the read of its optional
\* container
C3_Failing ==
    /\ Raising /\ IsParseError(exc) /\ stack # <<>>
    /\ Top.fn = "rat" /\ Top.rgn
    /\ Top.p.kind \in {"Block", "Section"} /\ Top.p.optional

C3_RevertStep ==
    /\ C3_Failing =>
          /\ exc' = None
          /\ cursor' = Last(regions).start
          /\ \A d \in 1..Len(Last(regions).snap) : heap'[d] = Last(regions).snap[d]
          /\ Top'.val = Reverted /\ Top'.pc = "translate"
    /\ (At("rat", "translate") /\ Top.val = Reverted) =>
          ret' = Reverted /\ heap' = heap /\ cursor' = cursor
    /\ (At("goto", "result") /\ ret = Reverted) =>
          /\ heap' = heap /\ cursor' = cursor /\ exc' = None
          /\ ret' = Reverted /\ stack' = Front(stack)

\* C3: when a child of an optional Block or Section raises a ParseError, the
\* read of the container leaves the cursor where it was when the region of
\* the container was opened, leaves every dict that existed then as it was
\* then (so the enclosing Context holds no key of the children), returns
\* Reverted, and the caller stores nothing for the container.
C3_OptionalReverts == [][C3_RevertStep]_vars

\* an optional container reverted after its children had written two entries
\* and moved the cursor, with entries in the enclosing frame
C3_Witness ==
    /\ ev.op = "region_exit_suppress" /\ exc = None
    /\ Top.p.optional /\ Top.val = Reverted
    /\ Len(heap[Top.out[1]]) >= 2
    /\ Len(heap[Top.contexts[1][1]]) >= 1

(***************************************************************************)
(* C4                                                                      *)
(***************************************************************************)
\* the exception is at the read of an optional Block or Section
C4_Catcher ==
    /\ stack # <<>> /\ Top.fn = "rat" /\ Top.rgn
    /\ Top.p.kind \in {"Block", "Section"} /\ Top.p.optional

\* the exception is at the read of End, inside the region End opens around
\* its probe
C4_EndProbe == stack # <<>> /\ Top.fn = "rat" /\ Top.rgn /\ Top.p.kind = "End"

\* what a step does with a ParseError, the places in catches being the only
\* ones where one may be cleared
C4_Step(catches) ==
    /\ (Raising /\ IsParseError(exc) /\ ~catches) =>
          /\ exc' = exc /\ heap' = heap /\ cursor' = cursor
          /\ IF stack = <<>>
             THEN outcome' = [status |-> "raised", result |-> <<>>, error |-> exc]
             ELSE /\ Running'
                  /\ Len(stack') \in {Len(stack) - 1, Len(stack)}
                  /\ SubSeq(stack', 1, Len(stack) - 1) = Front(stack)
    /\ (Raising /\ IsParseError(exc) /\ C4_Catcher) =>
          /\ exc' = None /\ Len(stack') = Len(stack)
          /\ Top'.val = Reverted /\ Top'.pc = "translate"
    /\ (exc # None /\ exc' = None) => (catches /\ IsParseError(exc))
    /\ (/\ At("rat", "elements") /\ ret = Reverted
        /\ Top.i <= Len(Top.p.elements)) =>
          /\ exc' = None /\ Len(stack') = Len(stack) + 1
          /\ Top'.fn = "goto" /\ Top'.pc = "spacer"
          /\ Top'.p = Top.p.elements[Top.i]

\* C4 as stated: a ParseError raised anywhere inside a container or modifier
\* goes up unchanged to the nearest optional Block or Section, or out of
\* parse(), and is caught at no other place
C4_CaughtOnlyByOptional == [][C4_Step(C4_Catcher)]_vars

\* C4 (amended): a ParseError goes up unchanged, one call at a time, through
\* every call that is not the read of an optional Block or Section, and out
\* of parse() when there is none; the read of an optional Block or Section
\* returns Reverted, and after a Reverted the container goes on with its
\* next element; no exception is cleared anywhere else, except that End
\* clears the FBNoDataError of its own probe, reads nothing and succeeds.
C4_ParseErrorPropagates ==
    [][/\ C4_Step(C4_Catcher \/ C4_EndProbe)
       /\ (Raising /\ C4_EndProbe) =>
             /\ exc = Some("FBNoDataError") /\ exc' = None
             /\ cursor' = cursor /\ heap' = heap
             /\ Top'.pc = "after" /\ Top'.val = NoneVal
       /\ (At("rat", "after") /\ Top.val = NoneVal) =>
             exc' = None /\ Top'.val = Success]_vars

\* the element after an optional container that reverted is being parsed
C4_Witness ==
    /\ ev.op \in {"Block_read_element", "Section_read_element"}
    /\ ret = Reverted /\ Len(stack) >= 2
    /\ stack[Len(stack) - 1].i >= 3
    /\ stack[Len(stack) - 1].p.elements[stack[Len(stack) - 1].i - 2].optional

(***************************************************************************)
(* C5                                                                      *)
(***************************************************************************)
C5_Step ==
    (At("goto", "spacer") /\ Top.p.address # None) =>
       LET f == Top
           T == f.p.address[1]
           C == Address(f.data)
           unit == regions[f.data].unit
           key == IF T - C = 1 THEN s_spacer \o hex(C)
                  ELSE s_spacer \o hex(C) \o <<"-">> \o hex(T - 1)
       IN /\ C = T => heap' = heap /\ cursor' = cursor /\ exc' = None
          /\ (C < T /\ cursor + (T - C) * unit <= 8 * src) =>
                /\ exc' = None
                /\ cursor' = cursor + (T - C) * unit
                /\ (cursor' - regions[f.data].base) \div unit = T
                /\ Len(Last(heap'[f.contexts[1][1]]).v.v) = T - C
                /\ AppendsOne(f.contexts[1], key, data_read(f.data, T - C))
          /\ (C < T /\ cursor + (T - C) * unit > 8 * src) =>
                exc' = Some("FBNoDataError") /\ heap' = heap /\ cursor' = cursor

\* C5: before a parser pinned at T is read at address C: when C = T nothing
\* is added and the cursor stays; when C < T the T - C units up to T are
\* read and appended to the enclosing Context under spacer_<hex C>-<hex T-1>,
\* or spacer_<hex C> for one unit, suffixed when the chain has that key, and
\* the cursor is at T.
C5_Spacer == [][C5_Step]_vars

\* a spacer was stored under a suffixed key
C5_Witness ==
    /\ ev.op = "goto_addr_and_read_call" /\ exc = None /\ Len(stack) >= 2
    /\ stack[Len(stack) - 1].p.address = Some(10)
    /\ heap[Top.contexts[1][1]] # <<>>
    /\ Last(heap[Top.contexts[1][1]]).k = spacer_at(<<"9">>) \o <<SP, "1">>
    /\ Address(Top.data) = 10

(***************************************************************************)
(* C6                                                                      *)
(***************************************************************************)
C6_Step ==
    /\ (/\ At("goto", "spacer") /\ Top.p.address # None
        /\ Address(Top.data) > Top.p.address[1]) =>
          exc' = Some("IndexError") /\ heap' = heap /\ cursor' = cursor
    /\ exc = Some("IndexError") =>
          exc' = exc /\ heap' = heap /\ ret' = ret /\ cursor' = cursor

\* C6: with the cursor past the pinned address, goto_addr_and_read raises
\* IndexError and writes nothing; the IndexError is never cleared, no dict
\* changes and nothing is returned while it goes up, an optional container
\* included, and parse() ends raising it.
C6_PastAddressFatal ==
    /\ [][C6_Step]_vars
    /\ [](exc = Some("IndexError") /\ ~Running =>
            outcome = [status |-> "raised", result |-> <<>>, error |-> exc])

\* the IndexError has left the revertible region of an optional container
C6_Witness ==
    /\ ev.op = "region_exit_propagate" /\ exc = Some("IndexError")
    /\ Top.p.kind \in {"Block", "Section"} /\ Top.p.optional

(***************************************************************************)
(* C7                                                                      *)
(***************************************************************************)
C7_Step ==
    /\ (Storing("Mock") /\ ~Truthy(Top.p.label) /\ ret.t = "str") =>
          LET a == Address(Top.data) - Top.p.length
          IN /\ Top.p.address # None => a = Top.p.address[1]
             /\ AppendsOne(Top.contexts[1], Top.p.backup[1] \o <<"_">> \o hex(a), ret)
    /\ (At("goto", "spacer") /\ Top.p.address = None) =>
          heap' = heap /\ cursor' = cursor

C7_Example ==
    (layout = addressed_section /\ src = 100 /\ ~Running) =>
        outcome = Returned(<<Entry(mock_at(<<"0">>), foo), Entry(mock_at(<<"3">>), bar),
                             Entry(mock_at(<<"8">>), baz),
                             Entry(spacer_at(<<"9">>), BytesVal(<<9>>)),
                             Entry(mock_at(<<"a">>), qux)>>)

\* C7: an unlabeled field is stored under <backup label>_<hex a>, a being
\* the address in the region of its container where its read began, which
\* is the pinned address when it has one; an unpinned field is read where
\* the cursor is, with no spacer; fields of 3, 5, 1 and one pinned at 10
\* give the keys at 0x0, 0x3, 0x8, spacer_0x9 and the key at 0xa only.
C7_BackupLabelAddress == [][C7_Step]_vars /\ []C7_Example

\* an unlabeled pinned field was stored after its spacer
C7_Witness ==
    /\ ev.op = "goto_addr_and_read_result" /\ exc = None
    /\ layout = addressed_section
    /\ Len(heap) >= 2 /\ Len(heap[2]) = 5
    /\ heap[2][4].k = spacer_at(<<"9">>)
    /\ heap[2][5].k = mock_at(<<"a">>)

(***************************************************************************)
(* C8                                                                      *)
(***************************************************************************)
\* the result of an unlabeled Block is about to be stored
C8_Unlabeled == Storing("Block") /\ ~Truthy(Top.p.label) /\ ret.t = "dict"

C9_LabeledSectionStored ==
    [][(Storing("Section") /\ Truthy(Top.p.label) /\ ret.t = "Context") =>
          \E i \in 1..Len(heap'[Top.contexts[1][1]]) :
              LET e == heap'[Top.contexts[1][1]][i]
              IN e.v.t \in {"dict", "Context"} /\ StoredAs(heap, Top.contexts[1],
                                                           Top.p.label[1], e.k)]_vars

(***************************************************************************)
(* C10                                                                     *)
(***************************************************************************)
C10_Step ==
    /\ (Storing("Block") /\ Truthy(Top.p.label) /\ ret.t = "dict") =>
          AppendsOne(Top.contexts[1], Top.p.label[1], ret)
    /\ (At("rat", "elements") /\ Top.p.kind = "Block" /\ Top.i > Len(Top.p.elements)
        /\ exc' = None) =>
          /\ Top'.val = DictVal(heap[Top.out[1]])
          /\ \A d \in 1..Len(Last(regions).snap) : heap[d] = Last(regions).snap[d]

C10_Inner(b) ==
    DictVal(<<Entry(mock_at(<<"0">>), foo), Entry(mock_at(<<"3">>), bar),
              Entry(mock_at(<<"8">>), baz), Entry(spacer_at(<<"9">>), BytesVal(<<b>>)),
              Entry(mock_at(<<"a">>), qux)>>)

C10_Example ==
    /\ (layout = nested_blocks /\ ~Running) =>
          /\ outcome.status = "returned" /\ Len(outcome.result) = 14
          /\ outcome.result[6] = Entry(s_label, C10_Inner(21))
          /\ outcome.result[8] = Entry(s_label \o <<SP, "1">>, C10_Inner(49))
          /\ \A i \in 1..14 : outcome.result[i].v.t = "dict" <=> i \in {6, 8}
    /\ \A r \in BOOLEAN :
          (/\ layout = Section(<<m1, rshift(Block(<<m1>>, r, "PARENT", FALSE), s_a)>>,
                               TRUE, "PARENT", FALSE)
           /\ src = MaxData /\ ~Running) =>
              outcome = Returned(<<Entry(mock_at(<<"0">>), foo),
                                   Entry(s_a, DictVal(<<Entry(mock_at(IF r THEN <<"0">>
                                                                       ELSE <<"1">>),
                                                              foo)>>))>>)

\* C10: a labeled Block read successfully appends exactly one entry to the
\* enclosing Context, under its label, suffixed when the chain has the
\* label; the entry holds the mapping of the entries of its children, whose
\* keys count from the start of the Block when it is relative; and no dict
\* that existed when the Block began has changed when it returns.
C10_LabeledBlock == [][C10_Step]_vars /\ []C10_Example

\* the second Block labeled label was stored under "label 1"
C10_Witness ==
    /\ ev.op = "goto_addr_and_read_result" /\ exc = None
    /\ layout = nested_blocks
    /\ Len(heap) >= 2 /\ heap[2] # <<>>
    /\ Last(heap[2]) = Entry(s_label \o <<SP, "1">>, C10_Inner(49))

(***************************************************************************)
(* C11                                                                     *)
(***************************************************************************)
\* the Context an unlabeled Section returned is about to be promoted
C11_Unlabeled == Storing("Section") /\ ~Truthy(Top.p.label) /\ ret.t = "Context"

C11_Step ==
    C11_Unlabeled =>
       LET child == ret.v[1]
           parent == Top.contexts[1][1]
       IN /\ Len(ret.v) >= 2 /\ ret.v[2] = parent
          /\ exc' = None /\ ret' = Success
          /\ heap'[parent] = heap[parent] \o heap[child]
          /\ heap'[child] = <<>>
          /\ \A d \in 1..Len(heap) : d \notin {parent, child} => heap'[d] = heap[d]
          /\ DistinctKeys(heap'[parent])
          /\ \A i \in 1..Len(heap[child]) :
                ~contains(heap, Tail(ret.v), heap[child][i].k)

C11_Example ==
    (layout = nested_blocks /\ ~Running) =>
       /\ outcome.status = "returned" /\ Len(outcome.result) = 14
       /\ SubSeq(outcome.result, 1, 5) =
             <<Entry(mock_at(<<"0">>), foo), Entry(mock_at(<<"3">>), bar),
               Entry(mock_at(<<"8">>), baz), Entry(spacer_at(<<"9">>), BytesVal(<<9>>)),
               Entry(mock_at(<<"a">>), qux)>>
       /\ SubSeq(outcome.result, 10, 14) =
             <<Entry(mock_at(<<"0">>) \o <<SP, "1">>, foo),
               Entry(mock_at(<<"3">>) \o <<SP, "1">>, bar),
               Entry(mock_at(<<"8">>) \o <<SP, "1">>, baz),
               Entry(spacer_at(<<"9">>) \o <<SP, "1">>, BytesVal(<<69>>)),
               Entry(mock_at(<<"a">>) \o <<SP, "1">>, qux)>>

\* C11: when an unlabeled Section has been read, its entries are appended,
\* in order and each once, to the innermost frame of the enclosing Context,
\* whose earlier entries stay as they are; no other dict changes, no key of
\* the Section is held by the enclosing chain already (a key in use there
\* was suffixed when it was written), and no entry is made for the Section.
C11_SectionMergesFlat == [][C11_Step]_vars /\ []C11_Example

\* a Section was merged whose first key had been suffixed because the
\* enclosing frame holds it
C11_Witness ==
    /\ ev.op = "goto_addr_and_read_result" /\ exc = None /\ ret = Success
    /\ layout = Section(<<m1, Section(<<m1>>, TRUE, "PARENT", FALSE)>>, TRUE, "PARENT", FALSE)
    /\ Len(heap) >= 2
    /\ heap[2] = <<Entry(mock_at(<<"0">>), foo), Entry(mock_at(<<"0">>) \o <<SP, "1">>, foo)>>

(***************************************************************************)
(* C12                                                                     *)
(***************************************************************************)
\* the parser is a field that reads a fixed number of units and returns a
\* value
\* a field: a leaf whose read returns a value
C12_IsField(p) == p.kind = "Byte" \/ (p.kind = "Mock" /\ p.value # NoneVal)
C12_Bits(p, unit) == IF p.kind = "Byte" THEN 8 ELSE p.length * unit

\* the key Repeat stores the value of an iteration under, before suffixing
C12_Key(p) == IF Truthy(p.label) THEN p.label[1] ELSE p.backup[1] \o <<"_", "0", "x", "0">>

C12_Step ==
    /\ (At("rat", "loop") /\ Top.p.kind = "Repeat" /\ Top.i < Top.n) =>
          /\ Len(regions') = Len(regions) + 1
          /\ Last(regions').base = cursor /\ Last(regions').start = cursor
          /\ ~Last(regions').revertible
          /\ cursor' = cursor
    /\ (/\ At("rat", "iter_result") /\ Top.p.kind = "Repeat"
        /\ C12_IsField(Top.p.parser[1]) /\ ret.t \in {"str", "bytes"}) =>
          LET f == Top
              results == f.out[1]
          IN /\ cursor = Last(regions).start + C12_Bits(f.p.parser[1], Last(regions).unit)
             /\ cursor' = cursor /\ exc' = None
             /\ Len(heap[results]) = f.i
             /\ AppendsOne(f.out, C12_Key(f.p), ret)
             /\ Top'.i = f.i + 1
    /\ (/\ Storing("Repeat") /\ C12_IsField(Top.p.parser[1])
        /\ ret.t = "Context") =>
          LET child == ret.v[1]
              parent == Top.contexts[1][1]
          IN /\ ret.v[2] = parent
             /\ Len(heap[child]) = Top.p.qty.v[1]
             /\ \A i \in 1..Len(heap[child]) : heap[child][i].v.t \in {"str", "bytes"}
             /\ heap'[parent] = heap[parent] \o heap[child]
             /\ \A d \in 1..Len(heap) : d \notin {parent, child} => heap'[d] = heap[d]
             /\ DistinctKeys(heap'[parent])
             /\ exc' = None /\ ret' = Success

C12_Byte(k, b) == Entry(s_Byte \o <<"_", "0", "x", "0">> \o k, BytesVal(<<b>>))

C12_Example ==
    /\ \A b \in 0..1 :
          (/\ layout = Section((IF b = 1 THEN <<m1>> ELSE <<>>) \o <<Repeat(Byte, QtyInt(3))>>,
                               TRUE, "PARENT", FALSE)
           /\ src = MaxData /\ ~Running) =>
              outcome = Returned((IF b = 1 THEN <<Entry(mock_at(<<"0">>), foo)>> ELSE <<>>)
                                 \o <<C12_Byte(<<>>, b), C12_Byte(<<SP, "1">>, b + 1),
                                      C12_Byte(<<SP, "2">>, b + 2)>>)
    /\ (/\ layout = Section(<<m1, Repeat(m1, QtyInt(2))>>, TRUE, "PARENT", FALSE)
        /\ src = MaxData /\ ~Running) =>
           outcome = Returned(<<Entry(mock_at(<<"0">>), foo),
                                Entry(mock_at(<<"0">>) \o <<SP, "1">>, foo),
                                Entry(mock_at(<<"0">>) \o <<SP, "2">>, foo)>>)

\* C12: Repeat(field, n) opens for each iteration a relative region that
\* is not revertible at the cursor, where the iteration before ended; the
\* value of iteration i is appended as entry i of the accumulating frame
\* under the key of the field, suffixed when the chain has it; and when all
\* n have succeeded the n values are appended in that order to the
\* enclosing frame, which gets no list and no nested mapping.
C12_RepeatFlat == [][C12_Step]_vars /\ []C12_Example

\* Repeat(Byte, 3) has returned three entries read from consecutive bytes
C12_Witness ==
    /\ ev.op = "Repeat_read_return" /\ exc = None
    /\ Top.p = Repeat(Byte, QtyInt(3))
    /\ heap[Top.out[1]] = <<C12_Byte(<<>>, 1), C12_Byte(<<SP, "1">>, 2),
                            C12_Byte(<<SP, "2">>, 3)>>

(***************************************************************************)
(* C13                                                                     *)
(***************************************************************************)
\* C13 as stated: every iteration of an Array that ends without an error
\* adds one element, which is the empty placeholder exactly when the read
\* of the iteration reverted, so that the Array returns count elements
C13_ArrayLength ==
    [][/\ (At("rat", "iter_result") /\ Top.p.kind = "Array" /\ exc' = None) =>
             /\ Len(Top'.results) = Len(Top.results) + 1
             /\ Last(Top'.results) = ListVal(<<>>) <=> ret = Reverted
       /\ (At("rat", "loop") /\ Top.p.kind = "Array" /\ Top.i >= Top.n) =>
             Len(Top.results) = Top.p.qty.v[1]]_vars

C15_AtModifier ==
    Raising /\ stack # <<>> /\ Top.fn = "rat" /\ Top.p.kind \in {"Repeat", "Array"}

\* the dicts the Contexts of a call refer to
C15_Refs(f) ==
    UNION {{f.contexts[j][m] : m \in 1..Len(f.contexts[j])} : j \in 1..Len(f.contexts)}

\* the dicts that the calls that go on after the exception was cleared at
\* the innermost call of stk can still reach: the Contexts they were given,
\* and what the callers accumulate
C15_Surviving(stk) ==
    UNION {C15_Refs(stk[j]) : j \in 1..Len(stk)}
    \cup UNION {{stk[j].out[m] : m \in 1..Len(stk[j].out)} : j \in 1..(Len(stk) - 1)}

C15_Step ==
    /\ C15_AtModifier =>
          /\ exc' = exc /\ heap' = heap /\ cursor' = cursor
          /\ IF Top.rgn
             THEN /\ regions' = Front(regions)
                  /\ stack' = SetTop([Top EXCEPT !.rgn = FALSE])
             ELSE stack' = Front(stack) /\ regions' = regions
    /\ (exc # None /\ exc' = None /\ Top.p.kind \in {"Block", "Section"}) =>
          \A d \in C15_Surviving(stack') :
              d <= Len(Last(regions).snap) /\ heap'[d] = Last(regions).snap[d]
    /\ (Raising /\ stack = <<>>) =>
          outcome' = [status |-> "raised", result |-> <<>>, error |-> exc]

C15_Example ==
    \A k \in Kinds, m \in {Repeat(m1, QtyInt(2)), Array(m1, QtyInt(2)),
                           Repeat(Section(<<m1>>, TRUE, "PARENT", FALSE), QtyInt(2))} :
       (/\ layout = Section(<<Container(k, <<m1, m>>, TRUE, TRUE), m1>>, TRUE, "PARENT", FALSE)
        /\ src = 2 /\ ~Running) =>
           outcome = Returned(<<Entry(mock_at(<<"0">>), foo)>>)

\* C15: an exception that reaches the read of a Repeat or an Array leaves
\* its region and then its call unchanged, with no further iteration and no
\* write; when it is cleared by an optional container, every dict the calls
\* that go on can reach is as it was when that container began, so it holds
\* no entry of the iterations before; and when it leaves parse() nothing is
\* returned.
C15_ModifierAborts == [][C15_Step]_vars /\ []C15_Example

\* an optional container reverted after the second iteration of a Repeat
\* failed, the first having left its entry (renamed: the container holds
\* an equal key) in the Context the Repeat accumulates in
C15_Witness ==
    /\ ev.op = "region_exit_suppress" /\ exc = None
    /\ Top.p.optional /\ Len(Top.p.elements) = 2
    /\ Top.p.elements[2] = Repeat(m1, QtyInt(2))
    /\ \E d \in (Top.out[1] + 1)..Len(heap) :
          heap[d] = <<Entry(mock_at(<<"0">>) \o <<" ", "1">>, foo)>>

(***************************************************************************)
(* C16                                                                     *)
(***************************************************************************)
\* the str the user function of the layouts makes of a str
C16_Marked(x) == [t |-> "str", v |-> x.v \o <<"!">>]

C16_Step ==
    \* the translation: one step of the call, which ends the call
    /\ At("rat", "translate") =>
          /\ heap' = heap
          /\ IF Top.val = Reverted
             THEN ret' = Reverted /\ exc' = None /\ stack' = Front(stack)
             ELSE IF Top.p.kind # "Translator"
             THEN ret' = Top.val /\ exc' = None /\ stack' = Front(stack)
             ELSE IF Top.val.t = "str"
             THEN ret' = C16_Marked(Top.val) /\ exc' = None /\ stack' = Front(stack)
             ELSE exc' = Some("TypeError") /\ ret' = ret
    \* no other step of a call of read_and_translate makes a value
    /\ (stack # <<>> /\ Top.fn = "rat" /\ ~At("rat", "translate")) => ret' = ret
    \* a call begins with its read, and comes to the translation from the
    \* read: with what the read returned, which is Reverted when the read
    \* cleared an exception
    /\ (Len(stack') = Len(stack) + 1 /\ Top'.fn = "rat") => Top'.pc = "read"
    /\ (/\ Len(stack') = Len(stack) /\ stack # <<>>
        /\ Top'.pc = "translate" /\ Top.pc # "translate" /\ exc' = None) =>
          /\ Top.fn = "rat"
          /\ exc # None => Top'.val = Reverted
    \* the read of a Translator is the translated value of the wrapped parser
    /\ At("rat", "wrapped") =>
          /\ Top.p.kind = "Translator"
          /\ stack' = SetTop([Top EXCEPT !.val = ret, !.pc = "translate"])
    \* what is stored for a Translator is what its translation returned
    /\ (Storing("Translator") /\ ret.t = "str") =>
          /\ ret.v[Len(ret.v)] = "!"
          /\ AppendsOne(Top.contexts[1], store_label(Top.p, Some(Top.addr), None), ret)

C16_Root(x) == Section(<<x, m1>>, TRUE, "PARENT", FALSE)
C16_T(x) == Translator(x, s_suffix)

C16_Example ==
    /\ (layout = C16_Root(C16_T(m1)) /\ src = MaxData /\ ~Running) =>
          outcome = Returned(<<Entry(mock_at(<<"0">>), C16_Marked(foo)),
                               Entry(mock_at(<<"1">>), foo)>>)
    /\ (layout = C16_Root(C16_T(C16_T(m1))) /\ src = MaxData /\ ~Running) =>
          outcome = Returned(<<Entry(mock_at(<<"0">>), C16_Marked(C16_Marked(foo))),
                               Entry(mock_at(<<"1">>), foo)>>)
    /\ (layout = C16_Root(Repeat(C16_T(m1), QtyInt(2))) /\ src = MaxData /\ ~Running) =>
          outcome = Returned(<<Entry(mock_at(<<"0">>), C16_Marked(foo)),
                               Entry(mock_at(<<"0">>) \o <<SP, "1">>, C16_Marked(foo)),
                               Entry(mock_at(<<"2">>), foo)>>)
    /\ (layout = C16_Root(Array(C16_T(m1), QtyInt(2))) /\ src = MaxData /\ ~Running) =>
          outcome = Returned(<<Entry(mock_at(<<"0">>),
                                     ListVal(<<C16_Marked(foo), C16_Marked(foo)>>)),
                               Entry(mock_at(<<"2">>), foo)>>)
    /\ (layout = C16_Root(C16_T(Optional(<<m1, Failure>>, TRUE))) /\ src = MaxData /\ ~Running) =>
          outcome = Returned(<<Entry(mock_at(<<"0">>), foo)>>)
    /\ (layout = C16_Root(C16_T(Failure)) /\ ~Running) =>
          outcome = [status |-> "raised", result |-> <<>>, error |-> Some("FBError")]

\* C16: every call of read_and_translate begins with the read, translates
\* in one step that ends the call, and translates only what a read that
\* neither reverted nor raised returned; nothing is stored by then; the
\* read of a Translator is the translated value of the wrapped parser, its
\* translation is the user function applied to it, and that is the value
\* stored, also for a Translator in a Repeat or in an Array.
C16_TranslateOnce == [][C16_Step]_vars /\ []C16_Example

\* a Translator over a Translator has translated: the user function is
\* applied to the value the inner one translated
C16_Witness ==
    /\ ev.op = "read_and_translate_return" /\ exc = None
    /\ ret = C16_Marked(C16_Marked(foo))
    /\ stack # <<>> /\ Top.fn = "goto" /\ Top.p = C16_T(C16_T(m1))

(***************************************************************************)
(* C17                                                                     *)
(***************************************************************************)
C17_Step ==
    \* no call changes an object that exists
    /\ Len(pobjs') >= Len(pobjs)
    /\ \A i \in 1..Len(pobjs) : pobjs'[i] = pobjs[i]
    \* a call that returns makes one object
    /\ built'.raised = None => Len(pobjs') = Len(pobjs) + 1
    /\ built'.raised # None => pobjs' = pobjs
    /\ (built'.op = "matmul" /\ built'.raised = None) =>
          Last(pobjs') = [pobjs[built'.recv] EXCEPT !.address = <<built'.arg.v[1]>>]
    /\ (built'.op = "rshift" /\ built'.raised = None) =>
          Last(pobjs') = [pobjs[built'.recv] EXCEPT !.label = <<built'.arg.v[1]>>]
    /\ (built'.op = "rshift" /\ built'.arg.t # "str") => built'.raised = <<"TypeError">>
    /\ (built'.op = "mul" /\ built'.raised = None) =>
          /\ Last(pobjs').kind = "Repeat" /\ Last(pobjs').qty = built'.arg
          /\ Last(pobjs').parser = <<pobjs[built'.recv]>>
    /\ (built'.op = "getitem" /\ built'.raised = None) =>
          /\ Last(pobjs').kind = "Array" /\ Last(pobjs').qty = built'.arg
          /\ Last(pobjs').parser = <<pobjs[built'.recv]>>

\* C17: p @ A, p >> L, p * n and p[n] change no parser object that exists,
\* p included; when they return there is one more object, which for @ and
\* >> is p with the address A respectively the label L and every other
\* attribute as in p, and for * and [] is a Repeat respectively an Array of
\* p; when they raise, as >> does with TypeError for an L that is no str,
\* there is no new object.
C17_OperatorsPure == [][C17_Step]_vars

\* a pinned parser without a label was labelled: the new parser has the
\* label and the pin, the receiver still has no label
C17_Witness ==
    /\ built.op = "rshift" /\ built.raised = None
    /\ pobjs[built.recv].label = None /\ pobjs[built.recv].address = <<1>>
    /\ Last(pobjs).label = <<s_a>> /\ Last(pobjs).address = <<1>>

(***************************************************************************)
(* C18                                                                     *)
(***************************************************************************)
\* the parser and the parsers it holds have the attributes the setters and
\* Block.__init__ let through
RECURSIVE C18_Valid(_)
C18_Valid(p) ==
    /\ p.address = None \/ p.address[1] >= 0
    /\ p.relative \in BOOLEAN
    /\ p.addr_type \in {"BIT", "BYTE", "PARENT", "UNDEFINED"}
    /\ \A j \in 1..Len(p.elements) : C18_Valid(p.elements[j])
    /\ \A j \in 1..Len(p.parser) : C18_Valid(p.parser[j])

\* the arguments of the call are invalid
C18_Invalid(b) ==
    CASE b.op = "matmul" -> b.arg.t # "int" \/ b.arg.v[1] < 0
      [] b.op = "rshift" -> b.arg.t # "str"
      [] b.op \in Kinds ->
            \/ b.arg.relative.t # "bool"
            \/ b.arg.addr_type.t \notin {"str", "AddrType"}
            \/ b.arg.addr_type.v[1] \notin {"BIT", "BYTE", "PARENT", "UNDEFINED"}
            \/ \E j \in 1..Len(b.arg.elements) : b.arg.elements[j].t # "Parser"
      [] OTHER -> FALSE

C18_Step ==
    /\ C18_Invalid(built') => built'.raised # None /\ pobjs' = pobjs
    /\ (built'.op = "matmul" /\ built'.arg.t # "int") => built'.raised = <<"TypeError">>
    /\ (built'.op = "matmul" /\ built'.arg.t = "int" /\ built'.arg.v[1] < 0) =>
          built'.raised = <<"IndexError">>
    /\ \A i \in 1..Len(pobjs') : C18_Valid(pobjs'[i])

\* C18: a call with a target address that is negative or no int, a label
\* that is no str, a child that is no Parser, a relative flag that is no
\* bool or an addressing mode that is none raises and builds nothing, so
\* that every parser that exists, and every parser it holds, has a target
\* address that is None or at least 0, and is what a read can be called on.
C18_RejectedAtConstruction == [][C18_Step]_vars

\* p @ -1 has raised IndexError, the parsers built before are there
C18_Witness ==
    /\ built.op = "matmul" /\ built.arg.t = "int" /\ built.arg.v[1] = -1
    /\ built.raised = <<"IndexError">>
    /\ Len(pobjs) >= 2 /\ Last(pobjs).address = <<0>>

(***************************************************************************)
(* C19                                                                     *)
(***************************************************************************)
\* C19: update_ext on a Context of one frame raises, and every dict, the
\* frame of the Context included, and every Context is as before.
C19_NoParentRaises ==
    [][(lastop'.op = "update_ext" /\ Len(cobjs[lastop'.c]) = 1) =>
          /\ lastop'.raised
          /\ heap' = heap /\ cobjs' = cobjs]_vars

\* update_ext has raised on a Context of one frame that holds an entry
C19_Witness ==
    /\ lastop.op = "update_ext" /\ lastop.raised
    /\ Len(cobjs[lastop.c]) = 1 /\ Len(heap[cobjs[lastop.c][1]]) >= 1

(***************************************************************************)
(* C20                                                                     *)
(***************************************************************************)
\* the innermost region is bit-addressed and the one around it byte-addressed
C20_BitInByte ==
    /\ Len(regions) >= 2
    /\ Last(regions).unit = 1 /\ regions[Len(regions) - 1].unit = 8

\* a Block or a Section has read its last child
C20_Finishing ==
    /\ At("rat", "elements") /\ Top.p.kind \in Kinds
    /\ Top.i > Len(Top.p.elements)

C20_Step ==
    /\ (C20_Finishing /\ C20_BitInByte) =>
          LET bits == cursor - Last(regions).start
              parent == regions[Len(regions) - 1]
          IN /\ Top.p.addr_type = "BIT" /\ Last(regions).start % 8 = 0
             /\ cursor' = cursor /\ regions' = Front(regions)
             /\ IF bits % 8 # 0
                THEN exc' = <<"RuntimeError">>
                ELSE /\ exc' = None
                     /\ (cursor - parent.base) \div 8 =
                           (Last(regions).start - parent.base) \div 8 + bits \div 8
    \* RuntimeError is cleared nowhere
    /\ exc = <<"RuntimeError">> => exc' = exc
    \* a field of the container is stored under the bit address it began at
    /\ (/\ Storing("Mock") /\ C20_BitInByte /\ Top.data = Len(regions)
        /\ ~Truthy(Top.p.label)) =>
          /\ Top.addr = cursor - Last(regions).base - Top.p.length
          /\ AppendsOne(Top.contexts[1], s_mock \o <<"_">> \o hex(Top.addr), ret)

C20_Bits(k, b, f, r, o) ==
    Section(b \o <<[Container(k, f, r, o) EXCEPT !.addr_type = "BIT"]>> \o <<m1>>,
            TRUE, "PARENT", FALSE)

C20_Example ==
    /\ \A r \in BOOLEAN, o \in BOOLEAN :
          (/\ layout = C20_Bits("Section", <<>>, bitwise_sequential_section.elements, r, o)
           /\ src = MaxData /\ ~Running) =>
              outcome = Returned(<<Entry(mock_at(<<"0">>), foo), Entry(mock_at(<<"3">>), bar),
                                   Entry(mock_at(<<"7">>), baz), Entry(mock_at(<<"1">>), foo)>>)
    /\ (/\ layout = C20_Bits("Section", <<m1>>, bitwise_sequential_section.elements, FALSE, FALSE)
        /\ src = MaxData /\ ~Running) =>
           outcome = Returned(<<Entry(mock_at(<<"0">>), foo), Entry(mock_at(<<"8">>), foo),
                                Entry(mock_at(<<"b">>), bar), Entry(mock_at(<<"f">>), baz),
                                Entry(mock_at(<<"2">>), foo)>>)
    /\ (/\ layout = C20_Bits("Block", <<>>,
                             <<MockType(3, foo), MockType(5, bar), MockType(8, qux)>>, TRUE, FALSE)
        /\ src = MaxData /\ ~Running) =>
           outcome = Returned(<<Entry(s_Block \o <<"_", "0", "x", "0">>,
                                      DictVal(<<Entry(mock_at(<<"0">>), foo),
                                                Entry(mock_at(<<"3">>), bar),
                                                Entry(mock_at(<<"8">>), qux)>>)),
                                Entry(mock_at(<<"2">>), foo)>>)
    /\ \A k \in Kinds, b \in Before, r \in BOOLEAN, o \in BOOLEAN :
          (/\ layout = C20_Bits(k, b, Fields_3_5_1, r, o)
           /\ src = MaxData /\ ~Running) =>
              outcome = [status |-> "raised", result |-> <<>>, error |-> <<"RuntimeError">>]
    /\ (layout = bitwise_sequential_section_length_9 /\ ~Running) =>
          outcome = [status |-> "raised", result |-> <<>>, error |-> <<"RuntimeError">>]

\* C20: a BIT Block or Section in a byte-addressed scope that has read its
\* last child leaves its region with RuntimeError when the bits it consumed
\* are no multiple of 8, an error no container clears, optional or not, so
\* that parse() raises it; when they are a multiple of 8 it leaves without
\* an error, with the byte address of the scope advanced by bits / 8; and
\* its fields are stored under the bit addresses they began at.
C20_BitContainer == [][C20_Step]_vars /\ []C20_Example

\* a BIT Section of 16 bits after one byte has finished: the scope is at
\* byte 3
C20_Witness ==
    /\ ev.op = "Section_read_return" /\ exc = None
    /\ Top.p.addr_type = "BIT" /\ Len(Top.p.elements) = 3
    /\ cursor = 24 /\ Len(regions) = 2 /\ Last(regions).unit = 8 /\ Address(2) = 3
    /\ heap[Top.out[1]] = <<Entry(mock_at(<<"0">>) \o <<SP, "1">>, foo),
                            Entry(mock_at(<<"3">>), bar), Entry(mock_at(<<"8">>), qux)>>

(***************************************************************************)
(* C21                                                                     *)
(***************************************************************************)
\* the calls that hold an open region, outermost first
C21_Holders == SelectSeq(stack, LAMBDA f : f.rgn)

\* C21 as stated: a step opens one region on top of the open ones, or
\* releases the innermost, or leaves them; every open region but the root
\* is held by one call, in the order of the calls, and is released when
\* its call ends, with or without an exception; and a step that reads
\* (the cursor advances) is made by a call whose region is the innermost
\* open one, for the containers, the modifiers and End.
C21_RegionDiscipline ==
    [][/\ \/ regions' = regions
          \/ regions' = Front(regions) /\ regions # <<>>
          \/ regions' = <<>>  /\ stack = <<>>
          \/ Len(regions') = Len(regions) + 1 /\ Front(regions') = regions
       /\ Running' => Len(regions') = 1 + Len(C21_Holders')
       /\ (stack # <<>> /\ Len(stack') < Len(stack)) => ~Top.rgn
       /\ (Running /\ stack # <<>> /\ cursor' > cursor) => Top.data = Len(regions)]_vars

(***************************************************************************)
(* C22                                                                     *)
(***************************************************************************)
\* the Contexts that enclose the field being read: those its read was
\* given, then those the calls around it were given, innermost first
RECURSIVE C22_Enclosing(_)
C22_Enclosing(stk) ==
    IF stk = <<>> THEN <<>> ELSE Last(stk).contexts \o C22_Enclosing(Front(stk))

\* C22 as stated: a Bytes with a key for its length, or a VarBytes, that is
\* read directly in a Block or Section or as the element of a Repeat or
\* Array raises KeyError when no enclosing Context holds the key, and
\* otherwise takes the value the innermost enclosing Context holds: when
\* that is an int of at least 1 and the input has as many bytes, the read
\* raises nothing and consumes that many bytes.
C22_DynamicLength ==
    [][(AtRead("Bytes") \/ AtRead("VarBytes")) /\ Top.p.qty.t = "str" =>
          LET key == Top.p.qty.v[1]
              encl == C22_Enclosing(stack)
          IN IF get_from_contexts_raises(heap, encl, key)
             THEN exc' = <<"KeyError">>
             ELSE LET found == get_from_contexts(heap, encl, key)
                  IN (/\ found.t = "int" /\ DigitVal(found.v[1]) >= 1
                      /\ cursor + 8 * DigitVal(found.v[1]) <= 8 * src) =>
                        /\ exc' = None
                        /\ cursor' = cursor + 8 * DigitVal(found.v[1])]_vars

(***************************************************************************)
(* C23                                                                     *)
(***************************************************************************)
\* key without a trailing numeric part
C23_Base(key) == IF SuffixFree(key) THEN key ELSE join(Front(split(key)))

\* C23 as stated, for a Context of one frame: a write of a key the frame
\* holds is stored under base + " " + n, base being the key without its
\* trailing numeric part and n the smallest positive integer whose key the
\* frame does not hold.
C23_SmallestSuffix ==
    [][(/\ lastop'.op = "set" /\ Len(cobjs[lastop'.c]) = 1
        /\ DictHas(heap[cobjs[lastop'.c][1]], Last(wlog').k)) =>
          LET f == cobjs[lastop'.c][1]
              base == C23_Base(Last(wlog').k)
              n == CHOOSE n \in 1..(Len(heap[f]) + 1) :
                      /\ ~DictHas(heap[f], base \o <<SP>> \o str(n))
                      /\ \A m \in 1..(n - 1) : DictHas(heap[f], base \o <<SP>> \o str(m))
          IN Last(heap'[f]).k = base \o <<SP>> \o str(n)]_vars

(***************************************************************************)
(* C24                                                                     *)
(***************************************************************************)
C24_Sentinel(v) == v.t \in {"Success", "Reverted"}

C24_Holds(v) ==
    \/ C24_Sentinel(v)
    \/ v.t = "list" /\ \E i \in 1..Len(v.v) : C24_Sentinel(v.v[i])

\* C24 as stated: neither Success nor Reverted is ever the value of a
\* Context entry or an element of an Array result, whatever the layout.
C24_NoSentinelStored ==
    /\ \A d \in 1..Len(heap) : \A i \in 1..Len(heap[d]) : ~C24_Holds(heap[d][i].v)
    /\ \A j \in 1..Len(stack) :
          (stack[j].p.kind = "Array" /\ stack[j].pc \in {"loop", "iter_result"}) =>
             \A i \in 1..Len(stack[j].results) : ~C24_Sentinel(stack[j].results[i])

(***************************************************************************)
(* C25                                                                     *)
(***************************************************************************)
\* C25 as stated, its first part: parser * 0 builds a Repeat with the
\* count 0, as parser[0] builds an Array with the count 0.
C25_ZeroCount ==
    [][(built'.op \in {"mul", "getitem"} /\ built'.arg.t = "int" /\ built'.arg.v[1] = 0) =>
          /\ built'.raised = None
          /\ pobjs' = Append(pobjs, Last(pobjs'))
          /\ Last(pobjs').kind = (IF built'.op = "mul" THEN "Repeat" ELSE "Array")
          /\ Last(pobjs').qty = built'.arg]_vars

(***************************************************************************)
(* C26                                                                     *)
(***************************************************************************)
\* the entry e of the dict d is in d after the step, or d was emptied by a
\* promote and e is in another dict
C26_Kept(d, e) ==
    \/ \E i \in 1..Len(heap'[d]) : heap'[d][i] = e
    \/ /\ heap'[d] = <<>>
       /\ \E d2 \in 1..Len(heap') : d2 # d /\ \E i \in 1..Len(heap'[d2]) : heap'[d2][i] = e

C26_Step ==
    Running' => \A d \in 1..Len(heap) : \A i \in 1..Len(heap[d]) : C26_Kept(d, heap[d][i])

\* C26: during parse() no entry of a Context frame is overwritten or
\* dropped by a write or by a promote into the frame: after every step the
\* entry is in the frame with its key and value, or the frame was promoted
\* and the entry is in the frame it was promoted into.
C26_NoOverwrite == [][C26_Step]_vars

\* a frame that held mock_0x0 has been promoted into: it holds mock_0x0 and
\* the renamed entry of the promoted frame, which is empty
C26_Witness ==
    /\ Running /\ exc = None /\ ev.op = "goto_addr_and_read_result"
    /\ \E d \in 1..Len(heap) :
          /\ Len(heap[d]) >= 2
          /\ heap[d][1] = [k |-> s_mock \o <<"_">> \o hex(0), v |-> foo]
          /\ heap[d][2] = [k |-> s_mock \o <<"_">> \o hex(0) \o <<SP, "1">>, v |-> foo]
          /\ \E d2 \in (d + 1)..Len(heap) : heap[d2] = <<>>

(***************************************************************************)
(* C27                                                                     *)
(***************************************************************************)
\* C27 as stated: a write of a key the Context does not hold stores the
\* value under exactly that key, so that the key reads back the value.
C27_AbsentKeyKept ==
    [][(lastop'.op = "set" /\ ~contains(heap, cobjs[lastop'.c], Last(wlog').k)) =>
          LET ctx == cobjs[lastop'.c]
              w == Last(wlog')
          IN /\ Last(heap'[ctx[1]]) = [k |-> w.k, v |-> w.v]
             /\ contains(heap', ctx, w.k)
             /\ getitem(heap', ctx, w.k) = w.v]_vars

(***************************************************************************)
(* C28                                                                     *)
(***************************************************************************)
\* C28 as stated: the Repeat or Array built over a parser has the target
\* address and the label of that parser.
C28_ModifierKeepsPin ==
    [][(built'.op \in {"mul", "getitem"} /\ built'.raised = None) =>
          /\ Last(pobjs').parser = <<pobjs[built'.recv]>>
          /\ Last(pobjs').address = pobjs[built'.recv].address
          /\ Last(pobjs').label = pobjs[built'.recv].label]_vars

(***************************************************************************)
(* C29                                                                     *)
(***************************************************************************)
\* an optional container pinned to an address
C29_Pinned(p) == p.kind \in Kinds /\ p.optional /\ p.address # None

\* the entry of a spacer that ends before the address T
C29_IsSpacer(e, T) ==
    \E s \in 0..(T - 1) :
        /\ e.k = spacer_label(s, T)
        /\ e.v.t = "bytes" /\ Len(e.v.v) = T - s

\* goto_addr_and_read of the container, the cursor before its address T: the
\* spacer goes last into the enclosing frame and the cursor to T, no region
\* is opened and the read of the container is still to come
C29_SpacerFirst ==
    (/\ At("goto", "spacer") /\ C29_Pinned(Top.p)
     /\ Top.p.address[1] > Address(Top.data)
     /\ ev'.op = "goto_addr_and_read_call" /\ exc' = None) =>
       LET c == Top.contexts[1][1]
           T == Top.p.address[1]
       IN /\ Len(heap'[c]) = Len(heap[c]) + 1
          /\ C29_IsSpacer(Last(heap'[c]), T)
          /\ cursor' = regions[Top.data].base + T * regions[Top.data].unit
          /\ regions' = regions
          /\ Top'.pc = "read" /\ Top'.p = Top.p /\ ~Top'.rgn

\* the container reverts: the enclosing frame is as it was when the region
\* was opened, the spacer in it, and the cursor is at T
C29_RevertKeeps ==
    (/\ Raising /\ stack # <<>> /\ C29_Pinned(Top.p) /\ Top.rgn
     /\ ev'.op = "region_exit_suppress") =>
       LET c == Top.contexts[1][1]
           T == Top.p.address[1]
           snap == Last(regions).snap
       IN /\ heap'[c] = snap[c]
          /\ (Len(snap[c]) > 0 /\ C29_IsSpacer(Last(snap[c]), T)) =>
                C29_IsSpacer(Last(heap'[c]), T)
          /\ cursor' = regions[Top.data].base + T * regions[Top.data].unit
          /\ Top'.val = Reverted

\* C29: for an optional Block or Section pinned to an address T after the
\* cursor, the spacer up to T is read and stored in the enclosing Context
\* before the revertible region is opened; when the container reverts, the
\* spacer entry is still in the enclosing Context and the cursor is at T.
C29_SpacerSurvivesRevert == [][C29_SpacerFirst /\ C29_RevertKeeps]_vars

\* a pinned optional container has reverted: the spacer is the last entry
\* of the enclosing frame and the cursor is at its address
C29_Witness ==
    /\ ev.op = "region_exit_suppress" /\ exc = None /\ stack # <<>>
    /\ C29_Pinned(Top.p) /\ Top.val = Reverted
    /\ Top.p.address[1] = MaxAddr
    /\ heap[Top.contexts[1][1]] # <<>>
    /\ C29_IsSpacer(Last(heap[Top.contexts[1][1]]), MaxAddr)
    /\ Address(Top.data) = MaxAddr

====
